---- MODULE Spec2Model ----
(***************************************************************************)
(* A model of cometbft-db's key-value store backends: the three SQLite     *)
(* adapters found in the sources (the split one of part_000 / part_002 /   *)
(* sqlite_iterator.go, and the two kept in sqlite.go), the Pebble adapter  *)
(* (pebble.go) and the GoLevelDB batch (goleveldb_batch.go).               *)
(*                                                                         *)
(* The storage engines are outside the repository.  They are modelled by   *)
(* what the adapters rely on: a table of rows, SQL statements evaluated    *)
(* on it, forward-only row cursors over the result of a query, engine      *)
(* transactions, and Pebble's bounded bidirectional iterator.              *)
(***************************************************************************)
EXTENDS Integers, Sequences, FiniteSets, TLC

VARIABLES
    backend,  \* which adapter the store was opened with
    kv,       \* the committed content of the store: present keys -> values
    itr,      \* the iterator object handed to the caller
    ih,       \* what the iterator's caller has done and seen
    bat,      \* the batch object handed to the caller
    txn,      \* the engine transaction a batch commit runs in
    wr,       \* the position of the caller inside Write()/WriteSync()
    bh,       \* what the batch's caller has done and seen (its last call)
    life,     \* what has happened to the batch since NewBatch()
    ph,       \* what the caller of the point operations has done and seen
    pool,     \* the iterator objects and iteratorPool
    rh,       \* the handles the caller of the pool got, and its last call
    cc,       \* the concurrent callers of one shared store
    sy,       \* ForceSync, and the options of the last engine write
    al        \* the byte buffers of an iterator and of its caller

vars == <<backend, kv, itr, ih, bat, txn, wr, bh, life, ph, pool, rh, cc, sy, al>>

(***************************************************************************)
(* Bounds.                                                                 *)
(***************************************************************************)
MaxByte == 3    \* keys are the one-byte strings <<1>> .. <<MaxByte>>
MaxObjs == 2     \* iterator objects, and handles one caller holds
MaxOps == 3     \* operations buffered in one batch

(***************************************************************************)
(* Go byte slices.  A nil slice and an empty slice both have length 0 and  *)
(* compare equal under bytes.Compare, but  x == nil  tells them apart.     *)
(***************************************************************************)
NilBytes == [isNil |-> TRUE, bytes |-> <<>>]

B(s) == [isNil |-> FALSE, bytes |-> s]

LenB(x) == Len(x.bytes)

RECURSIVE LexCompare(_, _)
LexCompare(a, b) ==
    IF a = <<>> /\ b = <<>> THEN 0
    ELSE IF a = <<>> THEN -1
    ELSE IF b = <<>> THEN 1
    ELSE IF Head(a) < Head(b) THEN -1
    ELSE IF Head(a) > Head(b) THEN 1
    ELSE LexCompare(Tail(a), Tail(b))

\* bytes.Compare(a, b) on Go slices
BytesCompare(a, b) == LexCompare(a.bytes, b.bytes)

KeyBlobs == {<<c>> : c \in 1..MaxByte}

\* Values are opaque to the adapters, which only test  v == nil  and
\* len(v) == 0 : one empty and one non-empty value cover every path.
ValueBlobs == {<<>>, <<7>>}

\* what a caller may pass as a key or as a range bound
KeyArgs == {NilBytes, B(<<>>)} \cup {B(k) : k \in KeyBlobs}

ValueArgs == {NilBytes} \cup {B(v) : v \in ValueBlobs}

Stores == UNION {[D -> ValueBlobs] : D \in SUBSET KeyBlobs}

\* the blobs of S in ascending order
RECURSIVE SortAsc(_)
SortAsc(S) ==
    IF S = {} THEN <<>>
    ELSE LET m == CHOOSE x \in S : \A y \in S : LexCompare(x, y) <= 0
         IN  <<m>> \o SortAsc(S \ {m})

RECURSIVE Reverse(_)
Reverse(s) == IF s = <<>> THEN <<>> ELSE Append(Reverse(Tail(s)), Head(s))

(***************************************************************************)
(* Errors.                                                                 *)
(***************************************************************************)
NoErr == "nil"
errKeyEmpty == "errKeyEmpty"
errValueNil == "errValueNil"
errBatchClosed == "errBatchClosed"
ErrEngine == "engine failure"
ErrSyntax == "SQL syntax error"
ErrTxDone == "sql: transaction has already been committed or rolled back"
ErrClosedBatchWrite == "cannot write to closed batch"
ErrAlreadyWritten == "batch already written or not properly closed"
ErrWriteRollback == "write failed, rollback failed"

(***************************************************************************)
(* The SQL engine: statements over the table kv(key, value).               *)
(* A statement is the sequence of its condition clauses, in the order the  *)
(* adapter appends them to "SELECT key, value FROM kv", and the ORDER BY.  *)
(***************************************************************************)
Cond(kw, op, arg) == [kw |-> kw, op |-> op, arg |-> arg.bytes]

\* the statement parses iff the first clause starts WHERE and the others AND
SqlWellFormed(conds) ==
    \A i \in 1..Len(conds) : conds[i].kw = (IF i = 1 THEN "WHERE" ELSE "AND")

CondHolds(k, c) ==
    LET r == LexCompare(k, c.arg)
    IN  CASE c.op = ">=" -> r >= 0
          [] c.op = ">"  -> r > 0
          [] c.op = "<=" -> r <= 0
          [] c.op = "<"  -> r < 0

SqlSelect(store, conds, desc) ==
    LET hit == {k \in DOMAIN store : \A i \in 1..Len(conds) : CondHolds(k, conds[i])}
        asc == SortAsc(hit)
        ord == IF desc THEN Reverse(asc) ELSE asc
    IN  [i \in 1..Len(ord) |-> [key |-> ord[i], value |-> store[ord[i]]]]

(***************************************************************************)
(* A row cursor (sql.Rows): the rows the query selected when it was        *)
(* issued, read forward only.  failAt is the number of the fetch the       *)
(* engine fails (0: none), scanFailAt the row whose Scan fails (0: none).  *)
(***************************************************************************)
NoRows == [data |-> <<>>, pos |-> 0, err |-> FALSE, closed |-> TRUE,
           failAt |-> 0, scanFailAt |-> 0]

OpenRows(data, failAt, scanFailAt) ==
    [data |-> data, pos |-> 0, err |-> FALSE, closed |-> FALSE,
     failAt |-> failAt, scanFailAt |-> scanFailAt]

\* db.Query(stmt, args...)
DbQuery(store, conds, desc, failAt, scanFailAt) ==
    IF ~SqlWellFormed(conds)
    THEN [err |-> ErrSyntax, rows |-> NoRows]
    ELSE [err |-> NoErr,
          rows |-> OpenRows(SqlSelect(store, conds, desc), failAt, scanFailAt)]

\* rows.Next(): FALSE at the end of the rows (which closes them) or on a failure
RowsNext(r) ==
    IF r.closed THEN [ok |-> FALSE, rows |-> r]
    ELSE IF r.failAt = r.pos + 1
    THEN [ok |-> FALSE, rows |-> [r EXCEPT !.err = TRUE, !.closed = TRUE]]
    ELSE IF r.pos < Len(r.data)
    THEN [ok |-> TRUE, rows |-> [r EXCEPT !.pos = @ + 1]]
    ELSE [ok |-> FALSE, rows |-> [r EXCEPT !.closed = TRUE]]

\* rows.Err()
RowsErr(r) == IF r.err THEN ErrEngine ELSE NoErr

(***************************************************************************)
(* sqliteIterator (sqlite_iterator.go; sqlite.go holds the same code       *)
(* twice, the second time with a seeking constructor).                     *)
(***************************************************************************)
NoItr == [live |-> FALSE, rows |-> NoRows, start |-> NilBytes, end |-> NilBytes,
          isReverse |-> FALSE, isInvalid |-> FALSE,
          key |-> NilBytes, value |-> NilBytes]

\* rows.Scan(&itr.key, &itr.value) of the row just fetched
scanRow(it) ==
    IF it.rows.scanFailAt = it.rows.pos
    THEN [it EXCEPT !.isInvalid = TRUE]
    ELSE [it EXCEPT !.key = B(it.rows.data[it.rows.pos].key),
                    !.value = B(it.rows.data[it.rows.pos].value)]

first(it) ==
    LET n == RowsNext(it.rows)
        j == [it EXCEPT !.rows = n.rows]
    IN  IF n.ok THEN scanRow(j) ELSE [j EXCEPT !.isInvalid = TRUE]

RECURSIVE last(_)
last(it) ==
    LET n == RowsNext(it.rows)
        j == [it EXCEPT !.rows = n.rows]
    IN  IF n.ok THEN last(scanRow(j)) ELSE j

next(it) ==
    LET n == RowsNext(it.rows)
        j == [it EXCEPT !.rows = n.rows]
    IN  IF n.ok THEN scanRow(j) ELSE [j EXCEPT !.isInvalid = TRUE]

prev(it) == [it EXCEPT !.isInvalid = TRUE]

\* sqlite.go, second copy: prev fetches the next row of the cursor
prevSeek(it) ==
    LET n == RowsNext(it.rows)
        j == [it EXCEPT !.rows = n.rows]
    IN  IF n.ok THEN scanRow(j) ELSE [j EXCEPT !.isInvalid = TRUE]

RECURSIVE seek(_, _)
seek(it, key) ==
    LET n == RowsNext(it.rows)
        j == [it EXCEPT !.rows = n.rows]
    IN  IF ~n.ok THEN j
        ELSE LET s == scanRow(j)
             IN  IF BytesCompare(s.key, key) >= 0 THEN s ELSE seek(s, key)

valid(it) == ~it.isInvalid

NewItr(rows, start, end, isReverse) ==
    [live |-> TRUE, rows |-> rows, start |-> start, end |-> end,
     isReverse |-> isReverse, isInvalid |-> FALSE,
     key |-> NilBytes, value |-> NilBytes]

newSQLiteIterator(rows, start, end, isReverse) ==
    LET it == NewItr(rows, start, end, isReverse)
    IN  IF isReverse THEN last(it) ELSE first(it)

newSQLiteIteratorSeek(rows, start, end, isReverse) ==
    LET it == NewItr(rows, start, end, isReverse)
    IN  IF isReverse
        THEN IF end.isNil THEN last(it)
             ELSE LET s == seek(it, end)
                  IN  IF valid(s)
                      THEN IF BytesCompare(end, s.key) <= 0 THEN prevSeek(s) ELSE s
                      ELSE last(s)
        ELSE IF start.isNil THEN first(it) ELSE seek(it, start)

\* itr.Domain()
SqliteDomain(it) == <<it.start, it.end>>

\* itr.Error()
SqliteError(it) == RowsErr(it.rows)

\* itr.Valid(): the result and the iterator afterwards
SqliteValid(it) ==
    IF it.isInvalid THEN [ret |-> FALSE, it |-> it]
    ELSE IF SqliteError(it) # NoErr
    THEN [ret |-> FALSE, it |-> [it EXCEPT !.isInvalid = TRUE]]
    ELSE IF it.isReverse
    THEN IF ~it.start.isNil /\ BytesCompare(it.key, it.start) < 0
         THEN [ret |-> FALSE, it |-> [it EXCEPT !.isInvalid = TRUE]]
         ELSE [ret |-> TRUE, it |-> it]
    ELSE IF ~it.end.isNil /\ BytesCompare(it.end, it.key) <= 0
         THEN [ret |-> FALSE, it |-> [it EXCEPT !.isInvalid = TRUE]]
         ELSE [ret |-> TRUE, it |-> it]

\* cp(bz): a fresh slice of the same bytes
cp(bz) == B(bz.bytes)

\* a Key() that asserts nothing and returns the cached key
SqliteKeyUnchecked(it) == [panic |-> FALSE, ret |-> cp(it.key), it |-> it]

\* itr.Key() / itr.Value(): panics iff assertIsValid does
SqliteKey(it) ==
    LET v == SqliteValid(it)
    IN  [panic |-> ~v.ret, ret |-> IF v.ret THEN cp(v.it.key) ELSE NilBytes, it |-> v.it]

\* a Value() that also fetches the cursor's next row
SqliteValueAdvancing(it) ==
    LET v == SqliteValid(it)
    IN  [panic |-> ~v.ret, ret |-> IF v.ret THEN cp(v.it.value) ELSE NilBytes,
         it |-> IF v.ret THEN next(v.it) ELSE v.it]

SqliteValue(it) ==
    LET v == SqliteValid(it)
    IN  [panic |-> ~v.ret, ret |-> IF v.ret THEN cp(v.it.value) ELSE NilBytes, it |-> v.it]

\* a Next() that asserts nothing and takes isInvalid from the fetch
SqliteNextUnguarded(it, seeking) ==
    LET n == RowsNext(it.rows)
        j == [it EXCEPT !.rows = n.rows, !.isInvalid = ~n.ok]
    IN  [panic |-> FALSE, it |-> IF n.ok THEN scanRow(j) ELSE j]

\* itr.Next(); seeking tells the second copy of sqlite.go from the others
SqliteNext(it, seeking) ==
    LET v == SqliteValid(it)
    IN  IF ~v.ret THEN [panic |-> TRUE, it |-> v.it]
        ELSE [panic |-> FALSE,
              it |-> IF it.isReverse
                     THEN IF seeking THEN prevSeek(v.it) ELSE prev(v.it)
                     ELSE next(v.it)]

\* itr.Close(): closes the cursor and nothing else
SqliteClose(it) ==
    [panic |-> FALSE, err |-> NoErr, it |-> [it EXCEPT !.rows.closed = TRUE]]

(***************************************************************************)
(* SQLiteDB.Iterator / ReverseIterator.  The three adapters share          *)
(* Iterator; each has its own ReverseIterator.                             *)
(***************************************************************************)
BadBounds(start, end) ==
    (~start.isNil /\ LenB(start) = 0) \/ (~end.isNil /\ LenB(end) = 0)

IteratorStmt(start, end) ==
    (IF ~start.isNil THEN <<Cond("WHERE", ">=", start)>> ELSE <<>>)
    \o (IF ~end.isNil THEN <<Cond("AND", "<", end)>> ELSE <<>>)

\* part_000
ReverseIteratorStmt(start, end) ==
    (IF ~start.isNil THEN <<Cond("WHERE", "<=", start)>> ELSE <<>>)
    \o (IF ~end.isNil
        THEN <<Cond(IF ~start.isNil THEN "AND" ELSE "WHERE", ">", end)>>
        ELSE <<>>)

\* sqlite.go, first copy
ReverseIteratorStmtV1(start, end) ==
    (IF ~end.isNil THEN <<Cond("WHERE", "<=", end)>> ELSE <<>>)
    \o (IF ~start.isNil THEN <<Cond("AND", ">", start)>> ELSE <<>>)

\* sqlite.go, second copy
ReverseIteratorStmtV2(start, end) ==
    (IF ~start.isNil THEN <<Cond("WHERE", "<", start)>> ELSE <<>>)
    \o (IF ~end.isNil
        THEN <<Cond(IF ~start.isNil THEN "AND" ELSE "WHERE", ">=", end)>>
        ELSE <<>>)

\* the result of a constructor call: an error and no iterator, or an iterator
ItrErr(e) == [err |-> e, it |-> NoItr]
ItrOk(it) == [err |-> NoErr, it |-> it]

SQLiteDBIterator(be, store, start, end, failAt, scanFailAt) ==
    IF BadBounds(start, end) THEN ItrErr(errKeyEmpty)
    ELSE LET q == DbQuery(store, IteratorStmt(start, end), FALSE, failAt, scanFailAt)
         IN  IF q.err # NoErr THEN ItrErr(q.err)
             ELSE IF be = "sqliteV2"
             THEN ItrOk(newSQLiteIteratorSeek(q.rows, start, end, FALSE))
             ELSE ItrOk(newSQLiteIterator(q.rows, start, end, FALSE))

SQLiteDBReverseIterator(be, store, start, end, failAt, scanFailAt) ==
    IF BadBounds(start, end) THEN ItrErr(errKeyEmpty)
    ELSE IF be = "sqlite"
    THEN LET q == DbQuery(store, ReverseIteratorStmt(start, end), TRUE, failAt, scanFailAt)
         IN  IF q.err # NoErr THEN ItrErr(q.err)
             ELSE ItrOk(newSQLiteIterator(q.rows, start, end, TRUE))
    ELSE IF be = "sqliteV1"
    THEN LET q == DbQuery(store, ReverseIteratorStmtV1(start, end), TRUE, failAt, scanFailAt)
         IN  IF q.err # NoErr THEN ItrErr(q.err)
             ELSE ItrOk(newSQLiteIterator(q.rows, end, start, TRUE))
    ELSE LET q == DbQuery(store, ReverseIteratorStmtV2(start, end), TRUE, failAt, scanFailAt)
         IN  IF q.err # NoErr THEN ItrErr(q.err)
             ELSE ItrOk(newSQLiteIteratorSeek(q.rows, end, start, TRUE))

(***************************************************************************)
(* The Pebble engine's iterator: the entries with lower <= key < upper as  *)
(* of NewIter, and a position among them (0: before the first, Len+1:      *)
(* after the last).  failAt is the position at which the engine reports    *)
(* an error (0: none).                                                     *)
(***************************************************************************)
PebbleNewIter(store, lower, upper, failAt) ==
    LET hit == {k \in DOMAIN store :
                   /\ lower.isNil \/ LexCompare(k, lower.bytes) >= 0
                   /\ upper.isNil \/ LexCompare(k, upper.bytes) < 0}
        asc == SortAsc(hit)
    IN  OpenRows([i \in 1..Len(asc) |-> [key |-> asc[i], value |-> store[asc[i]]]],
                 failAt, 0)

PebbleMoveTo(s, p) ==
    IF s.failAt = p /\ p \in 1..Len(s.data)
    THEN [s EXCEPT !.pos = p, !.err = TRUE]
    ELSE [s EXCEPT !.pos = p]

PebbleFirst(s) == PebbleMoveTo(s, 1)
PebbleLast(s) == PebbleMoveTo(s, Len(s.data))
PebbleSourceNext(s) == IF s.pos <= Len(s.data) THEN PebbleMoveTo(s, s.pos + 1) ELSE s
PebbleSourcePrev(s) == IF s.pos >= 1 THEN PebbleMoveTo(s, s.pos - 1) ELSE s
PebbleSourceValid(s) == ~s.closed /\ ~s.err /\ s.pos \in 1..Len(s.data)
PebbleSourceKey(s) == IF PebbleSourceValid(s) THEN B(s.data[s.pos].key) ELSE NilBytes
PebbleSourceValue(s) == IF PebbleSourceValid(s) THEN B(s.data[s.pos].value) ELSE NilBytes

(***************************************************************************)
(* pebbleDBIterator (pebble.go).  The record's rows field is the source.   *)
(***************************************************************************)
newPebbleDBIterator(source, start, end, isReverse) ==
    LET s == IF isReverse
             THEN IF end.isNil THEN PebbleLast(source) ELSE source
             ELSE IF start.isNil THEN PebbleFirst(source) ELSE source
    IN  NewItr(s, start, end, isReverse)

PebbleDBIterator(store, start, end, failAt) ==
    IF BadBounds(start, end) THEN ItrErr(errKeyEmpty)
    ELSE ItrOk(newPebbleDBIterator(PebbleFirst(PebbleNewIter(store, start, end, failAt)),
                                   start, end, FALSE))

PebbleDBReverseIterator(store, start, end, failAt) ==
    IF BadBounds(start, end) THEN ItrErr(errKeyEmpty)
    ELSE ItrOk(newPebbleDBIterator(PebbleLast(PebbleNewIter(store, start, end, failAt)),
                                   start, end, TRUE))

PebbleDomain(it) == <<it.start, it.end>>

PebbleError(it) == RowsErr(it.rows)

PebbleValid(it) ==
    IF it.isInvalid THEN [ret |-> FALSE, it |-> it]
    ELSE IF PebbleError(it) # NoErr
    THEN [ret |-> FALSE, it |-> [it EXCEPT !.isInvalid = TRUE]]
    ELSE IF ~PebbleSourceValid(it.rows)
    THEN [ret |-> FALSE, it |-> [it EXCEPT !.isInvalid = TRUE]]
    ELSE IF it.isReverse
    THEN IF ~it.start.isNil /\ BytesCompare(PebbleSourceKey(it.rows), it.start) < 0
         THEN [ret |-> FALSE, it |-> [it EXCEPT !.isInvalid = TRUE]]
         ELSE [ret |-> TRUE, it |-> it]
    ELSE IF ~it.end.isNil /\ BytesCompare(it.end, PebbleSourceKey(it.rows)) <= 0
         THEN [ret |-> FALSE, it |-> [it EXCEPT !.isInvalid = TRUE]]
         ELSE [ret |-> TRUE, it |-> it]

PebbleKey(it) ==
    LET v == PebbleValid(it)
    IN  [panic |-> ~v.ret,
         ret |-> IF v.ret THEN cp(PebbleSourceKey(v.it.rows)) ELSE NilBytes, it |-> v.it]

PebbleValue(it) ==
    LET v == PebbleValid(it)
    IN  [panic |-> ~v.ret,
         ret |-> IF v.ret THEN cp(PebbleSourceValue(v.it.rows)) ELSE NilBytes, it |-> v.it]

\* a Next() that moves the source forward in both directions
PebbleNextForward(it) ==
    LET v == PebbleValid(it)
    IN  IF ~v.ret THEN [panic |-> TRUE, it |-> it]
        ELSE [panic |-> FALSE, it |-> [it EXCEPT !.rows = PebbleSourceNext(it.rows)]]

\* Next has a value receiver: what its Valid() writes to isInvalid is lost,
\* the move of the shared source is not
PebbleNext(it) ==
    LET v == PebbleValid(it)
    IN  IF ~v.ret THEN [panic |-> TRUE, it |-> it]
        ELSE [panic |-> FALSE,
              it |-> [it EXCEPT !.rows = IF it.isReverse
                                          THEN PebbleSourcePrev(it.rows)
                                          ELSE PebbleSourceNext(it.rows)]]

\* itr.source == nil: NoRows stands for the nil source
PebbleSourceNil(it) == it.rows = NoRows

\* itr.Close(): closes the source, clears the fields and marks the iterator
\* invalid (and puts it into iteratorPool, see PoolPut); with a nil source
\* itr.source.Close() dereferences nil and panics before anything is changed
PebbleClose(it) ==
    IF PebbleSourceNil(it) THEN [panic |-> TRUE, err |-> NoErr, it |-> it]
    ELSE [panic |-> FALSE, err |-> NoErr,
          it |-> [it EXCEPT !.rows = NoRows, !.start = NilBytes, !.end = NilBytes,
                            !.isReverse = FALSE, !.isInvalid = TRUE]]

(***************************************************************************)
(* The Iterator interface, by backend.                                     *)
(***************************************************************************)
IterBackends == {"sqlite", "sqliteV1", "sqliteV2", "pebble"}

DBIterator(be, store, start, end, failAt, scanFailAt) ==
    IF be = "pebble" THEN PebbleDBIterator(store, start, end, failAt)
    ELSE SQLiteDBIterator(be, store, start, end, failAt, scanFailAt)

DBReverseIterator(be, store, start, end, failAt, scanFailAt) ==
    IF be = "pebble" THEN PebbleDBReverseIterator(store, start, end, failAt)
    ELSE SQLiteDBReverseIterator(be, store, start, end, failAt, scanFailAt)

Valid(be, it) == IF be = "pebble" THEN PebbleValid(it) ELSE SqliteValid(it)
Key(be, it) == IF be = "pebble" THEN PebbleKey(it) ELSE SqliteKey(it)
Value(be, it) == IF be = "pebble" THEN PebbleValue(it) ELSE SqliteValue(it)
Next(be, it) == IF be = "pebble" THEN PebbleNext(it) ELSE SqliteNext(it, be = "sqliteV2")
Close(be, it) == IF be = "pebble" THEN PebbleClose(it) ELSE SqliteClose(it)
Error(be, it) == IF be = "pebble" THEN PebbleError(it) ELSE SqliteError(it)
Domain(be, it) == IF be = "pebble" THEN PebbleDomain(it) ELSE SqliteDomain(it)

(***************************************************************************)
(* Point writes (SQLiteDB.Set / Delete; the other adapters check the same  *)
(* arguments before they call their engine).                               *)
(***************************************************************************)
EnginePut(store, k, v) ==
    [x \in DOMAIN store \cup {k} |-> IF x = k THEN v ELSE store[x]]

EngineDelete(store, k) == [x \in DOMAIN store \ {k} |-> store[x]]

Set(store, key, value) ==
    IF LenB(key) = 0 THEN [err |-> errKeyEmpty, store |-> store]
    ELSE IF value.isNil THEN [err |-> errValueNil, store |-> store]
    ELSE [err |-> NoErr, store |-> EnginePut(store, key.bytes, value.bytes)]

Delete(store, key) ==
    IF LenB(key) = 0 THEN [err |-> errKeyEmpty, store |-> store]
    ELSE [err |-> NoErr, store |-> EngineDelete(store, key.bytes)]

(***************************************************************************)
(* Point operations of the three adapters.  Every operation returns what    *)
(* the caller gets (err, and value or has) and the store it leaves.  ok     *)
(* says whether the engine call the operation makes succeeds; an engine     *)
(* call that fails changes nothing.  An engine read of a stored entry       *)
(* returns a non-nil slice, of length zero for an empty value.              *)
(***************************************************************************)
PointRet(e, value, has, store) ==
    [err |-> e, value |-> value, has |-> has, store |-> store]

\* the error QueryRow(...).Scan / db.Get report for a key that is not stored
ErrNoRows == "sql: no rows in result set"

ErrNotFound == "not found"

\* QueryRow("SELECT value FROM kv WHERE key = ?", key).Scan(&value)
SqlQueryValue(store, key, ok) ==
    IF ~ok THEN [err |-> ErrEngine, value |-> NilBytes]
    ELSE IF key.bytes \notin DOMAIN store THEN [err |-> ErrNoRows, value |-> NilBytes]
    ELSE [err |-> NoErr, value |-> B(store[key.bytes])]

\* SQLiteDB.Get returning the scan error for a missing row as it is
SQLiteDBGetStrict(store, key, ok) ==
    IF LenB(key) = 0 THEN PointRet(errKeyEmpty, NilBytes, FALSE, store)
    ELSE LET q == SqlQueryValue(store, key, ok)
         IN  IF q.err # NoErr THEN PointRet(q.err, NilBytes, FALSE, store)
             ELSE PointRet(NoErr, B(q.value.bytes), FALSE, store)

\* SQLiteDB.Get (part_000, and the first copy in sqlite.go)
SQLiteDBGet(store, key, ok) ==
    IF LenB(key) = 0 THEN PointRet(errKeyEmpty, NilBytes, FALSE, store)
    ELSE LET q == SqlQueryValue(store, key, ok)
         IN  IF q.err # NoErr
             THEN IF q.err = ErrNoRows THEN PointRet(NoErr, NilBytes, FALSE, store)
                  ELSE PointRet(q.err, NilBytes, FALSE, store)
             ELSE IF LenB(q.value) = 0 THEN PointRet(NoErr, B(<<>>), FALSE, store)
             ELSE PointRet(NoErr, q.value, FALSE, store)

\* SQLiteDB.Get, second copy in sqlite.go
SQLiteDBGetV2(store, key, ok) ==
    IF LenB(key) = 0 THEN PointRet(errKeyEmpty, NilBytes, FALSE, store)
    ELSE LET q == SqlQueryValue(store, key, ok)
         IN  IF q.err # NoErr
             THEN IF q.err = ErrNoRows THEN PointRet(NoErr, NilBytes, FALSE, store)
                  ELSE PointRet(q.err, NilBytes, FALSE, store)
             ELSE IF LenB(q.value) = 0 THEN PointRet(NoErr, NilBytes, FALSE, store)
             ELSE PointRet(NoErr, q.value, FALSE, store)

\* SELECT COUNT(*) FROM kv WHERE key = ?
SQLiteDBHas(store, key, ok) ==
    IF LenB(key) = 0 THEN PointRet(errKeyEmpty, NilBytes, FALSE, store)
    ELSE IF ~ok THEN PointRet(ErrEngine, NilBytes, FALSE, store)
    ELSE PointRet(NoErr, NilBytes, key.bytes \in DOMAIN store, store)

SQLiteDBSet(store, key, value, ok) ==
    LET r == Set(store, key, value)
    IN  IF r.err = NoErr /\ ~ok THEN PointRet(ErrEngine, NilBytes, FALSE, store)
        ELSE PointRet(r.err, NilBytes, FALSE, r.store)

SQLiteDBSetSync(store, key, value, ok) == SQLiteDBSet(store, key, value, ok)

\* a Delete that reports a key it did not find
SQLiteDBDeleteStrict(store, key, ok) ==
    IF LenB(key) = 0 THEN PointRet(errKeyEmpty, NilBytes, FALSE, store)
    ELSE IF ~ok THEN PointRet(ErrEngine, NilBytes, FALSE, store)
    ELSE IF key.bytes \notin DOMAIN store THEN PointRet(ErrNoRows, NilBytes, FALSE, store)
    ELSE PointRet(NoErr, NilBytes, FALSE, EngineDelete(store, key.bytes))

SQLiteDBDelete(store, key, ok) ==
    LET r == Delete(store, key)
    IN  IF r.err = NoErr /\ ~ok THEN PointRet(ErrEngine, NilBytes, FALSE, store)
        ELSE PointRet(r.err, NilBytes, FALSE, r.store)

SQLiteDBDeleteSync(store, key, ok) == SQLiteDBDelete(store, key, ok)

\* pebble.DB.Get and leveldb.DB.Get
EngineGet(store, key, ok) ==
    IF ~ok THEN [err |-> ErrEngine, value |-> NilBytes]
    ELSE IF key.bytes \notin DOMAIN store THEN [err |-> ErrNotFound, value |-> NilBytes]
    ELSE [err |-> NoErr, value |-> B(store[key.bytes])]

PebbleDBGet(store, key, ok) ==
    IF LenB(key) = 0 THEN PointRet(errKeyEmpty, NilBytes, FALSE, store)
    ELSE LET g == EngineGet(store, key, ok)
         IN  IF g.err # NoErr
             THEN IF g.err = ErrNotFound THEN PointRet(NoErr, NilBytes, FALSE, store)
                  ELSE PointRet(g.err, NilBytes, FALSE, store)
             ELSE PointRet(NoErr, cp(g.value), FALSE, store)

PebbleDBHas(store, key, ok) ==
    IF LenB(key) = 0 THEN PointRet(errKeyEmpty, NilBytes, FALSE, store)
    ELSE LET g == PebbleDBGet(store, key, ok)
         IN  IF g.err # NoErr THEN PointRet(g.err, NilBytes, FALSE, store)
             ELSE PointRet(NoErr, NilBytes, ~g.value.isNil, store)

\* a set that replaces the whole content of the store by the one entry
PebbleDBsetReplacing(store, key, value, ok) ==
    IF LenB(key) = 0 THEN PointRet(errKeyEmpty, NilBytes, FALSE, store)
    ELSE IF value.isNil THEN PointRet(errValueNil, NilBytes, FALSE, store)
    ELSE IF ~ok THEN PointRet(ErrEngine, NilBytes, FALSE, store)
    ELSE PointRet(NoErr, NilBytes, FALSE, EnginePut(<<>>, key.bytes, value.bytes))

\* PebbleDB.set, the helper behind Set and SetSync
PebbleDBset(store, key, value, ok) ==
    IF LenB(key) = 0 THEN PointRet(errKeyEmpty, NilBytes, FALSE, store)
    ELSE IF value.isNil THEN PointRet(errValueNil, NilBytes, FALSE, store)
    ELSE IF ~ok THEN PointRet(ErrEngine, NilBytes, FALSE, store)
    ELSE PointRet(NoErr, NilBytes, FALSE, EnginePut(store, key.bytes, value.bytes))

PebbleDBDelete(store, key, ok) ==
    IF LenB(key) = 0 THEN PointRet(errKeyEmpty, NilBytes, FALSE, store)
    ELSE IF ~ok THEN PointRet(ErrEngine, NilBytes, FALSE, store)
    ELSE PointRet(NoErr, NilBytes, FALSE, EngineDelete(store, key.bytes))

\* returns nil when the engine fails, too
PebbleDBDeleteSync(store, key, ok) ==
    IF LenB(key) = 0 THEN PointRet(errKeyEmpty, NilBytes, FALSE, store)
    ELSE IF ~ok THEN PointRet(NoErr, NilBytes, FALSE, store)
    ELSE PointRet(NoErr, NilBytes, FALSE, EngineDelete(store, key.bytes))

GoLevelDBGet(store, key, ok) ==
    IF LenB(key) = 0 THEN PointRet(errKeyEmpty, NilBytes, FALSE, store)
    ELSE LET g == EngineGet(store, key, ok)
         IN  IF g.err # NoErr
             THEN IF g.err = ErrNotFound THEN PointRet(NoErr, NilBytes, FALSE, store)
                  ELSE PointRet(g.err, NilBytes, FALSE, store)
             ELSE PointRet(NoErr, g.value, FALSE, store)

GoLevelDBHas(store, key, ok) ==
    LET g == GoLevelDBGet(store, key, ok)
    IN  IF g.err # NoErr THEN PointRet(g.err, NilBytes, FALSE, store)
        ELSE PointRet(NoErr, NilBytes, ~g.value.isNil, store)

\* a Set that hands a nil value to the engine, which stores it as empty
GoLevelDBSetNoNilCheck(store, key, value, ok) ==
    IF LenB(key) = 0 THEN PointRet(errKeyEmpty, NilBytes, FALSE, store)
    ELSE IF ~ok THEN PointRet(ErrEngine, NilBytes, FALSE, store)
    ELSE PointRet(NoErr, NilBytes, FALSE, EnginePut(store, key.bytes, value.bytes))

\* GoLevelDB.Set; SetSync differs in the write options only
GoLevelDBSet(store, key, value, ok) ==
    IF LenB(key) = 0 THEN PointRet(errKeyEmpty, NilBytes, FALSE, store)
    ELSE IF value.isNil THEN PointRet(errValueNil, NilBytes, FALSE, store)
    ELSE IF ~ok THEN PointRet(ErrEngine, NilBytes, FALSE, store)
    ELSE PointRet(NoErr, NilBytes, FALSE, EnginePut(store, key.bytes, value.bytes))

\* GoLevelDB.Delete; DeleteSync differs in the write options only
GoLevelDBDelete(store, key, ok) ==
    IF LenB(key) = 0 THEN PointRet(errKeyEmpty, NilBytes, FALSE, store)
    ELSE IF ~ok THEN PointRet(ErrEngine, NilBytes, FALSE, store)
    ELSE PointRet(NoErr, NilBytes, FALSE, EngineDelete(store, key.bytes))

PointBackends == {"sqlite", "sqliteV1", "sqliteV2", "pebble", "goleveldb"}

DBGet(be, store, key, ok) ==
    IF be = "pebble" THEN PebbleDBGet(store, key, ok)
    ELSE IF be = "goleveldb" THEN GoLevelDBGet(store, key, ok)
    ELSE IF be = "sqliteV2" THEN SQLiteDBGetV2(store, key, ok)
    ELSE SQLiteDBGet(store, key, ok)

DBHas(be, store, key, ok) ==
    IF be = "pebble" THEN PebbleDBHas(store, key, ok)
    ELSE IF be = "goleveldb" THEN GoLevelDBHas(store, key, ok)
    ELSE SQLiteDBHas(store, key, ok)

DBSet(be, store, key, value, ok) ==
    IF be = "pebble" THEN PebbleDBset(store, key, value, ok)
    ELSE IF be = "goleveldb" THEN GoLevelDBSet(store, key, value, ok)
    ELSE SQLiteDBSet(store, key, value, ok)

DBSetSync(be, store, key, value, ok) ==
    IF be = "pebble" THEN PebbleDBset(store, key, value, ok)
    ELSE IF be = "goleveldb" THEN GoLevelDBSet(store, key, value, ok)
    ELSE SQLiteDBSetSync(store, key, value, ok)

DBDelete(be, store, key, ok) ==
    IF be = "pebble" THEN PebbleDBDelete(store, key, ok)
    ELSE IF be = "goleveldb" THEN GoLevelDBDelete(store, key, ok)
    ELSE SQLiteDBDelete(store, key, ok)

DBDeleteSync(be, store, key, ok) ==
    IF be = "pebble" THEN PebbleDBDeleteSync(store, key, ok)
    ELSE IF be = "goleveldb" THEN GoLevelDBDelete(store, key, ok)
    ELSE SQLiteDBDeleteSync(store, key, ok)

(***************************************************************************)
(* Engine transactions (sql.Tx).  An open transaction works on a private   *)
(* view of the table and holds the write lock; Commit publishes the view   *)
(* in one step.  Commit and Rollback of a transaction that is no longer    *)
(* open return sql.ErrTxDone.                                              *)
(***************************************************************************)
NoTxn == [st |-> "none", view |-> <<>>]

TxBegin(store) == [st |-> "open", view |-> store]

TxDone(t) == [st |-> "done", view |-> <<>>]

Op(type, key, value) == [type |-> type, key |-> key.bytes, value |-> value.bytes]

ApplyOp(store, op) ==
    IF op.type = "set" THEN EnginePut(store, op.key, op.value)
    ELSE EngineDelete(store, op.key)

RECURSIVE ApplyOps(_, _)
ApplyOps(store, ops) ==
    IF ops = <<>> THEN store ELSE ApplyOps(ApplyOp(store, Head(ops)), Tail(ops))

\* tx.Commit(); ok: the engine does not fail
TxCommit(t, store, ok) ==
    IF t.st # "open" THEN [err |-> ErrTxDone, txn |-> t, store |-> store]
    ELSE IF ok THEN [err |-> NoErr, txn |-> TxDone(t), store |-> t.view]
    ELSE [err |-> ErrEngine, txn |-> TxDone(t), store |-> store]

\* tx.Rollback()
TxRollback(t) ==
    IF t.st # "open" THEN [err |-> ErrTxDone, txn |-> t]
    ELSE [err |-> NoErr, txn |-> TxDone(t)]

(***************************************************************************)
(* Batches.  ops is b.ops of an sqliteBatch, or the content of b.batch     *)
(* of a Pebble / GoLevelDB batch; txSet is  b.tx != nil, batchNil is       *)
(* b.batch == nil.                                                         *)
(***************************************************************************)
NoBat == [live |-> FALSE, ops |-> <<>>, txSet |-> FALSE, batchNil |-> FALSE]

\* newSQLiteBatch, newPebbleDBBatch, newGoLevelDBBatch
NewBatch == [live |-> TRUE, ops |-> <<>>, txSet |-> FALSE, batchNil |-> FALSE]

\* direct: the operations the call sent to the engine itself (none: Set and
\* Delete only append to the buffer)
BatRet(e, b) == [err |-> e, bat |-> b, direct |-> <<>>]

\* a Set that also executes the statement on the database
sqliteBatchSetWriteThrough(b, key, value) ==
    IF LenB(key) = 0 THEN BatRet(errKeyEmpty, b)
    ELSE IF value.isNil THEN BatRet(errValueNil, b)
    ELSE [err |-> NoErr, bat |-> [b EXCEPT !.ops = Append(@, Op("set", key, value))],
          direct |-> <<Op("set", key, value)>>]

\* sqliteBatch (part_002, and the first copy in sqlite.go)
sqliteBatchSet(b, key, value) ==
    IF LenB(key) = 0 THEN BatRet(errKeyEmpty, b)
    ELSE IF value.isNil THEN BatRet(errValueNil, b)
    ELSE BatRet(NoErr, [b EXCEPT !.ops = Append(@, Op("set", key, value))])

sqliteBatchDelete(b, key) ==
    IF LenB(key) = 0 THEN BatRet(errKeyEmpty, b)
    ELSE BatRet(NoErr, [b EXCEPT !.ops = Append(@, Op("delete", key, NilBytes))])

\* sqliteBatch, second copy in sqlite.go
sqliteBatchSetV2(b, key, value) ==
    IF LenB(key) = 0 THEN BatRet(errKeyEmpty, b)
    ELSE IF value.isNil THEN BatRet(errValueNil, b)
    ELSE IF ~b.txSet THEN BatRet(errBatchClosed, b)
    ELSE BatRet(NoErr, [b EXCEPT !.ops = Append(@, Op("set", key, value))])

sqliteBatchDeleteV2(b, key) ==
    IF LenB(key) = 0 THEN BatRet(errKeyEmpty, b)
    ELSE IF ~b.txSet THEN BatRet(errBatchClosed, b)
    ELSE BatRet(NoErr, [b EXCEPT !.ops = Append(@, Op("delete", key, NilBytes))])

pebbleDBBatchSet(b, key, value) ==
    IF LenB(key) = 0 THEN BatRet(errKeyEmpty, b)
    ELSE IF value.isNil THEN BatRet(errValueNil, b)
    ELSE IF b.batchNil THEN BatRet(errBatchClosed, b)
    ELSE BatRet(NoErr, [b EXCEPT !.ops = Append(@, Op("set", key, value))])

pebbleDBBatchDelete(b, key) ==
    IF LenB(key) = 0 THEN BatRet(errKeyEmpty, b)
    ELSE IF b.batchNil THEN BatRet(errBatchClosed, b)
    ELSE BatRet(NoErr, [b EXCEPT !.ops = Append(@, Op("delete", key, NilBytes))])

goLevelDBBatchSet(b, key, value) ==
    IF LenB(key) = 0 THEN BatRet(errKeyEmpty, b)
    ELSE IF value.isNil THEN BatRet(errValueNil, b)
    ELSE IF b.batchNil THEN BatRet(errBatchClosed, b)
    ELSE BatRet(NoErr, [b EXCEPT !.ops = Append(@, Op("set", key, value))])

goLevelDBBatchDelete(b, key) ==
    IF LenB(key) = 0 THEN BatRet(errKeyEmpty, b)
    ELSE IF b.batchNil THEN BatRet(errBatchClosed, b)
    ELSE BatRet(NoErr, [b EXCEPT !.ops = Append(@, Op("delete", key, NilBytes))])

(***************************************************************************)
(* Close.                                                                  *)
(***************************************************************************)
CloseRet(e, b, t) == [err |-> e, bat |-> b, txn |-> t]

\* part_002, and the first copy in sqlite.go
sqliteBatchClose(b, t) ==
    IF b.txSet
    THEN LET r == TxRollback(t)
         IN  IF r.err # NoErr THEN CloseRet(r.err, [b EXCEPT !.txSet = FALSE], r.txn)
             ELSE CloseRet(NoErr, [b EXCEPT !.txSet = FALSE, !.ops = <<>>], r.txn)
    ELSE CloseRet(NoErr, [b EXCEPT !.ops = <<>>], t)

\* second copy in sqlite.go
sqliteBatchCloseV2(b, t) == CloseRet(NoErr, [b EXCEPT !.ops = <<>>, !.txSet = FALSE], t)

pebbleDBBatchClose(b, t) ==
    IF ~b.batchNil THEN CloseRet(NoErr, [b EXCEPT !.ops = <<>>, !.batchNil = TRUE], t)
    ELSE CloseRet(NoErr, b, t)

goLevelDBBatchClose(b, t) ==
    IF ~b.batchNil THEN CloseRet(NoErr, [b EXCEPT !.ops = <<>>, !.batchNil = TRUE], t)
    ELSE CloseRet(NoErr, b, t)

(***************************************************************************)
(* Write / WriteSync.  ok: the engine call that may fail does not.         *)
(***************************************************************************)
WriteRet(e, b, t, store) == [err |-> e, bat |-> b, txn |-> t, store |-> store]

\* pebbleDBBatch.Write / WriteSync: batch.Commit applies the batch in one step
pebbleDBBatchWrite(b, t, store, sync, ok) ==
    IF b.batchNil THEN WriteRet(errBatchClosed, b, t, store)
    ELSE IF ~ok THEN WriteRet(ErrEngine, b, t, store)
    ELSE LET c == pebbleDBBatchClose(b, t)
         IN  WriteRet(c.err, c.bat, t, ApplyOps(store, b.ops))

\* goLevelDBBatch.write: db.Write applies the batch in one step
goLevelDBBatchWrite(b, t, store, sync, ok) ==
    IF b.batchNil THEN WriteRet(errBatchClosed, b, t, store)
    ELSE IF ~ok THEN WriteRet(ErrEngine, b, t, store)
    ELSE LET c == goLevelDBBatchClose(b, t)
         IN  WriteRet(c.err, c.bat, t, ApplyOps(store, b.ops))

\* sqliteBatch.write, first copy in sqlite.go.  Nothing ever sets b.tx, so
\* only the first branch runs; the rest executes the operations on b.tx.
sqliteBatchWriteV1(b, t, store, sync, ok) ==
    IF ~b.txSet THEN WriteRet(ErrClosedBatchWrite, b, t, store)
    ELSE LET u == [t EXCEPT !.view = ApplyOps(@, b.ops)]
             c == [b EXCEPT !.ops = <<>>]
         IN  IF sync
             THEN LET m == TxCommit(u, store, ok) IN WriteRet(m.err, c, m.txn, m.store)
             ELSE WriteRet(NoErr, c, u, store)

\* sqliteBatch.write, second copy in sqlite.go.  Nothing ever sets b.tx
\* either; past the first branch it begins a transaction, executes the
\* operations, commits when sync and rolls back when not, and closes.
sqliteBatchWriteV2(b, t, store, sync, ok) ==
    IF ~b.txSet THEN WriteRet(errBatchClosed, b, t, store)
    ELSE LET u == [TxBegin(store) EXCEPT !.view = ApplyOps(@, b.ops)]
         IN  IF sync
             THEN LET m == TxCommit(u, store, ok)
                  IN  IF m.err # NoErr THEN WriteRet(m.err, b, m.txn, m.store)
                      ELSE WriteRet(NoErr, sqliteBatchCloseV2(b, t).bat, m.txn, m.store)
             ELSE WriteRet(NoErr, sqliteBatchCloseV2(b, t).bat, TxRollback(u).txn, store)

(***************************************************************************)
(* sqliteBatch.Write / WriteSync / write of part_002, in the steps other   *)
(* callers can interleave with: Begin, one Exec per operation, the end.    *)
(***************************************************************************)
\* Write / WriteSync up to  b.tx = tx
sqliteBatchWriteBegin(b, t, store, ok) ==
    IF b.txSet THEN [err |-> ErrAlreadyWritten, bat |-> b, txn |-> t, begun |-> FALSE]
    ELSE IF ~ok THEN [err |-> ErrEngine, bat |-> b, txn |-> t, begun |-> FALSE]
    ELSE [err |-> NoErr, bat |-> [b EXCEPT !.txSet = TRUE], txn |-> TxBegin(store),
          begun |-> TRUE]

\* b.tx.Exec of one buffered operation: it changes the transaction's view
sqliteBatchExecDirect(t, store, op) == [txn |-> t, store |-> ApplyOp(store, op)]

sqliteBatchExecIgnore(t, store, op) ==
    [txn |-> [t EXCEPT !.view = IF op.type = "set" /\ op.key \in DOMAIN @
                                 THEN @ ELSE ApplyOp(@, op)],
     store |-> store]

sqliteBatchExec(t, store, op) ==
    [txn |-> [t EXCEPT !.view = ApplyOp(@, op)], store |-> store]

\* Write / WriteSync after write() returned err: roll back and report
sqliteBatchWriteFailedCommits(b, t, store, err) ==
    LET m == TxCommit(t, store, TRUE)
    IN  WriteRet(err, [b EXCEPT !.txSet = FALSE], m.txn, m.store)

sqliteBatchWriteFailed(b, t, store, err) ==
    LET r == TxRollback(t)
    IN  IF r.err # NoErr THEN WriteRet(ErrWriteRollback, b, r.txn, store)
        ELSE WriteRet(err, [b EXCEPT !.txSet = FALSE], r.txn, store)

\* an end of write() that keeps b.ops: commits, and leaves the buffer
sqliteBatchWriteEndKeepingOps(b, t, store, sync, ok) ==
    LET o == TxCommit(t, store, ok)
    IN  WriteRet(o.err, b, o.txn, o.store)

\* write() after its loop, and the rest of Write / WriteSync
sqliteBatchWriteEnd(b, t, store, sync, ok) ==
    LET c == [b EXCEPT !.ops = <<>>]
    IN  IF sync
        THEN LET m == TxCommit(t, store, ok)
             IN  IF m.err # NoErr THEN sqliteBatchWriteFailed(c, m.txn, m.store, m.err)
                 ELSE LET o == TxCommit(m.txn, m.store, TRUE)
                      IN  WriteRet(o.err, c, o.txn, o.store)
        ELSE LET o == TxCommit(t, store, ok)
             IN  WriteRet(o.err, c, o.txn, o.store)

(***************************************************************************)
(* The position of a Write / WriteSync call of the split SQLite batch, and *)
(* the record the batch's caller keeps of its last call.                   *)
(***************************************************************************)
WrIdle == [pc |-> "idle", sync |-> FALSE, i |-> 0]

NoBh == [op |-> "none", ret |-> NoErr, argsOk |-> TRUE, wasFresh |-> FALSE,
         wasCommitted |-> FALSE, fresh |-> FALSE, committed |-> FALSE,
         pre |-> <<>>, post |-> <<>>, written |-> <<>>, grew |-> FALSE,
         injected |-> FALSE, execd |-> 0, n |-> 0]

\* what has happened to the batch since NewBatch(): Close() before any Write
\* (discarded), an engine failure in a Write of the open batch (failed), the
\* number of Close() calls (0, 1, or 2 for more), and whether the last
\* Close() left the batch object as it was
NoLife == [discarded |-> FALSE, failed |-> FALSE, closes |-> 0, batSame |-> TRUE]

\* the caller of the point operations: its last call (operation, arguments,
\* whether the engine call succeeds), what the call returned, the store and
\* the batch buffer before and after it, and the keys a Set has stored so far
NoPh ==
    [op |-> "none", key |-> NilBytes, value |-> NilBytes, ok |-> TRUE,
     err |-> NoErr, out |-> NilBytes, has |-> FALSE,
     pre |-> <<>>, post |-> <<>>, was |-> {},
     closed |-> FALSE, bufPre |-> <<>>, bufPost |-> <<>>]

\* no iterator object and nothing in iteratorPool
NoPool == [objs |-> <<>>, free |-> <<>>]

\* the caller of the pool: the object behind each handle it got, the handles
\* on which Close() has returned, and its last call
NoRh ==
    [hs |-> <<>>, rel |-> {}, op |-> "none", h |-> 0, err |-> NoErr,
     panicked |-> FALSE, again |-> FALSE, same |-> TRUE]

\* the goroutines of TestPebbleDBConcurrentReadsWrites
Callers == {1, 2}

\* a caller is about to Set or about to Get in round j of its loop; value
\* is what its last Set stored, got and err what its last Get returned
NoCc ==
    [i \in Callers |->
        [pc |-> "set", j |-> 1, value |-> NilBytes, got |-> NilBytes, err |-> NoErr,
         read |-> FALSE]]

\* var ForceSync = "0", isForceSync = false; no engine write issued yet
NoSy ==
    [ForceSync |-> "0", isForceSync |-> FALSE, op |-> "none", issued |-> FALSE,
     wopts |-> "none"]

\* no buffer allocated: heap holds the contents of every byte buffer by
\* address, key and value are the addresses of the iterator's own buffers,
\* n counts its Next() calls, got lists the slices handed to the caller
NoAl == [heap |-> <<>>, key |-> 0, value |-> 0, n |-> 0, got |-> <<>>, op |-> "none"]

otherVars == <<pool, rh, cc, sy, al>>

(***************************************************************************)
(* The iterator's caller.                                                  *)
(***************************************************************************)
\* the entries of store with start <= key < end, in the direction asked for
InRange(k, start, end) ==
    /\ start.isNil \/ LexCompare(start.bytes, k) <= 0
    /\ end.isNil \/ LexCompare(k, end.bytes) < 0

ExpectedEntries(store, start, end, rev) ==
    LET asc == SortAsc({k \in DOMAIN store : InRange(k, start, end)})
        ord == IF rev THEN Reverse(asc) ELSE asc
    IN  [i \in 1..Len(ord) |-> <<ord[i], store[ord[i]]>>]

NoIh == [op |-> "none", argStart |-> NilBytes, argEnd |-> NilBytes, argRev |-> FALSE,
         err |-> NoErr, expected |-> <<>>, yielded |-> <<>>, done |-> FALSE,
         panicked |-> FALSE, mutated |-> FALSE, failing |-> FALSE,
         released |-> FALSE, stale |-> NilBytes]

\* The stores an iterator is opened on: any set of keys; iteration never
\* looks into a value, so the first key holds the empty value and the others
\* a non-empty one (a concurrent Set may store any value).
IterStores ==
    {s \in Stores : \A k \in DOMAIN s : s[k] = (IF k = <<1>> THEN <<>> ELSE <<7>>)}

IterInit ==
    /\ backend \in IterBackends
    /\ kv \in IterStores
    /\ itr = NoItr
    /\ ih = NoIh
    /\ bat = NoBat
    /\ txn = NoTxn
    /\ wr = WrIdle
    /\ bh = NoBh
    /\ life = NoLife
    /\ ph = NoPh
    /\ pool = NoPool /\ rh = NoRh /\ cc = NoCc /\ sy = NoSy /\ al = NoAl

batchVars == <<bat, txn, wr, bh, life>>

\* db.Iterator(start, end) or db.ReverseIterator(start, end); the engine may
\* fail one fetch or one scan of the cursor
IterOpen(rev, start, end, failAt, scanFailAt) ==
    /\ ih.op = "none"
    /\ failAt = 0 \/ scanFailAt = 0
    /\ LET r == IF rev
                THEN DBReverseIterator(backend, kv, start, end, failAt, scanFailAt)
                ELSE DBIterator(backend, kv, start, end, failAt, scanFailAt)
       IN  /\ failAt <= Len(r.it.rows.data) + 1
           /\ scanFailAt <= Len(r.it.rows.data)
           /\ backend = "pebble" => scanFailAt = 0 /\ failAt <= Len(r.it.rows.data)
           /\ itr' = r.it
           /\ ih' = [NoIh EXCEPT !.op = "open", !.argStart = start, !.argEnd = end,
                                 !.argRev = rev, !.err = r.err,
                                 !.expected = ExpectedEntries(kv, start, end, rev),
                                 !.failing = (failAt # 0 \/ scanFailAt # 0)]
    /\ UNCHANGED <<backend, kv, batchVars, ph, otherVars>>

\* one turn of  for ; itr.Valid(); itr.Next() { itr.Key(); itr.Value() }
IterVisit ==
    /\ itr.live /\ ~ih.released
    /\ LET v == Valid(backend, itr)
       IN  IF ~v.ret
           THEN /\ itr' = v.it
                /\ ih' = [ih EXCEPT !.op = "valid", !.done = TRUE]
           ELSE LET k == Key(backend, v.it)
                    w == Value(backend, k.it)
                    n == Next(backend, w.it)
                IN  /\ itr' = n.it
                    /\ ih' = [ih EXCEPT !.op = "visit",
                                        !.yielded = Append(@, <<k.ret.bytes, w.ret.bytes>>)]
    /\ UNCHANGED <<backend, kv, batchVars, ph, otherVars>>

\* itr.Next() on an iterator that is not valid (on a valid one, see IterVisit)
IterNext ==
    /\ itr.live /\ ~ih.released
    /\ ~Valid(backend, itr).ret
    /\ LET n == Next(backend, itr)
       IN  /\ itr' = n.it
           /\ ih' = [ih EXCEPT !.op = "next", !.panicked = n.panic]
    /\ UNCHANGED <<backend, kv, batchVars, ph, otherVars>>

\* another caller's Set or Delete while the iterator is open
IterConcurrentSet(key, value) ==
    /\ itr.live /\ ~ih.released
    /\ ~ih.mutated /\ ~ih.failing
    /\ kv' = Set(kv, key, value).store
    /\ kv' # kv
    /\ ih' = [ih EXCEPT !.mutated = TRUE]
    /\ UNCHANGED <<backend, itr, batchVars, ph, otherVars>>

IterConcurrentDelete(key) ==
    /\ itr.live /\ ~ih.released
    /\ ~ih.mutated /\ ~ih.failing
    /\ kv' = Delete(kv, key).store
    /\ kv' # kv
    /\ ih' = [ih EXCEPT !.mutated = TRUE]
    /\ UNCHANGED <<backend, itr, batchVars, ph, otherVars>>

\* another caller's batch commit while the iterator is open
IterConcurrentWrite(setKey, delKey) ==
    /\ itr.live /\ ~ih.released
    /\ ~ih.mutated /\ ~ih.failing
    /\ setKey # delKey
    /\ kv' = ApplyOps(kv, <<Op("set", B(setKey), B(<<7>>)), Op("delete", B(delKey), NilBytes)>>)
    /\ kv' # kv
    /\ ih' = [ih EXCEPT !.mutated = TRUE]
    /\ UNCHANGED <<backend, itr, batchVars, ph, otherVars>>

\* itr.Close(), at any position of the iterator
IterClose ==
    /\ itr.live /\ ~ih.released
    /\ LET c == Close(backend, itr)
       IN  /\ itr' = c.it
           /\ ih' = [ih EXCEPT !.op = "close", !.err = c.err, !.released = TRUE]
    /\ UNCHANGED <<backend, kv, batchVars, ph, otherVars>>

\* itr.Key() on the iterator that was closed: whether it panicked and, if
\* not, the key it returned
IterUseReleased ==
    /\ ih.op = "close"
    /\ LET k == Key(backend, itr)
       IN  /\ itr' = k.it
           /\ ih' = [ih EXCEPT !.op = "use", !.panicked = k.panic, !.stale = k.ret]
    /\ UNCHANGED <<backend, kv, batchVars, ph, otherVars>>

IterStep ==
    \/ \E rev \in BOOLEAN, start \in KeyArgs, end \in KeyArgs,
          failAt \in 0..(MaxByte + 1), scanFailAt \in 0..MaxByte :
           IterOpen(rev, start, end, failAt, scanFailAt)
    \/ IterVisit
    \/ IterNext
    \/ IterClose
    \/ IterUseReleased
    \/ \E key \in KeyArgs, value \in ValueArgs : IterConcurrentSet(key, value)
    \/ \E key \in KeyArgs : IterConcurrentDelete(key)
    \/ \E setKey \in KeyBlobs, delKey \in KeyBlobs : IterConcurrentWrite(setKey, delKey)

SpecIter == IterInit /\ [][IterStep]_vars

(***************************************************************************)
(* The batch's caller: NewBatch, then Set / Delete / Write / WriteSync /   *)
(* Close in any order, each on the backend the behaviour fixed at start.   *)
(***************************************************************************)
BatchBackends == {"sqlite", "sqliteV1", "sqliteV2", "pebble", "goleveldb"}

\* the keys the batch's caller passes: nil, empty and two real keys
BatchKeyArgs == {NilBytes, B(<<>>), B(<<1>>), B(<<2>>)}

BatchSet(be, b, key, value) ==
    CASE be = "sqlite"    -> sqliteBatchSet(b, key, value)
      [] be = "sqliteV1"  -> sqliteBatchSet(b, key, value)
      [] be = "sqliteV2"  -> sqliteBatchSetV2(b, key, value)
      [] be = "pebble"    -> pebbleDBBatchSet(b, key, value)
      [] be = "goleveldb" -> goLevelDBBatchSet(b, key, value)

BatchDelete(be, b, key) ==
    CASE be = "sqlite"    -> sqliteBatchDelete(b, key)
      [] be = "sqliteV1"  -> sqliteBatchDelete(b, key)
      [] be = "sqliteV2"  -> sqliteBatchDeleteV2(b, key)
      [] be = "pebble"    -> pebbleDBBatchDelete(b, key)
      [] be = "goleveldb" -> goLevelDBBatchDelete(b, key)

BatchClose(be, b, t) ==
    CASE be = "sqlite"    -> sqliteBatchClose(b, t)
      [] be = "sqliteV1"  -> sqliteBatchClose(b, t)
      [] be = "sqliteV2"  -> sqliteBatchCloseV2(b, t)
      [] be = "pebble"    -> pebbleDBBatchClose(b, t)
      [] be = "goleveldb" -> goLevelDBBatchClose(b, t)

\* Write / WriteSync of the backends whose whole call is one engine step
BatchWrite(be, b, t, store, sync, ok) ==
    CASE be = "sqliteV1"  -> sqliteBatchWriteV1(b, t, store, sync, ok)
      [] be = "sqliteV2"  -> sqliteBatchWriteV2(b, t, store, sync, ok)
      [] be = "pebble"    -> pebbleDBBatchWrite(b, t, store, sync, ok)
      [] be = "goleveldb" -> goLevelDBBatchWrite(b, t, store, sync, ok)

WriteName(sync) == IF sync THEN "WriteSync" ELSE "Write"

BatchInit ==
    /\ backend \in BatchBackends
    /\ kv = <<>>
    /\ itr = NoItr
    /\ ih = NoIh
    /\ bat = NoBat
    /\ txn = NoTxn
    /\ wr = WrIdle
    /\ bh = NoBh
    /\ life = NoLife
    /\ ph = NoPh
    /\ pool = NoPool /\ rh = NoRh /\ cc = NoCc /\ sy = NoSy /\ al = NoAl

iterVars == <<itr, ih>>

\* db.NewBatch()
BNewBatch ==
    /\ wr.pc = "idle"
    /\ bat' = NewBatch
    /\ txn' = NoTxn
    /\ bh' = [NoBh EXCEPT !.op = "NewBatch", !.fresh = TRUE, !.pre = kv, !.post = kv,
                          !.n = bh.n]
    /\ UNCHANGED <<backend, kv, wr, iterVars, ph, otherVars>>

\* the caller's record of a call that returned
Returned(name, e, ok, before, store, ops, grew, done) ==
    [op |-> name, ret |-> e, argsOk |-> ok,
     wasFresh |-> bh.fresh, wasCommitted |-> bh.committed,
     fresh |-> bh.fresh /\ ~done, committed |-> bh.committed \/ (done /\ e = NoErr),
     pre |-> before, post |-> store,
     written |-> ops, grew |-> grew, injected |-> e = ErrEngine,
     execd |-> IF wr.pc = "exec" THEN wr.i - 1 ELSE 0,
     n |-> IF grew THEN bh.n + 1 ELSE bh.n]

\* batch.Set(key, value)
BSet(key, value) ==
    /\ wr.pc = "idle"
    /\ bat.live
    /\ LET r == BatchSet(backend, bat, key, value)
           grew == Len(r.bat.ops) > Len(bat.ops)
       IN  /\ grew => bh.n < MaxOps
           /\ bat' = r.bat
           /\ kv' = ApplyOps(kv, r.direct)
           /\ bh' = Returned("Set", r.err, LenB(key) > 0 /\ ~value.isNil, kv,
                             ApplyOps(kv, r.direct), <<>>, grew, FALSE)
    /\ UNCHANGED <<backend, txn, wr, iterVars, ph, otherVars>>

\* batch.Delete(key)
BDelete(key) ==
    /\ wr.pc = "idle"
    /\ bat.live
    /\ LET r == BatchDelete(backend, bat, key)
           grew == Len(r.bat.ops) > Len(bat.ops)
       IN  /\ grew => bh.n < MaxOps
           /\ bat' = r.bat
           /\ kv' = ApplyOps(kv, r.direct)
           /\ bh' = Returned("Delete", r.err, LenB(key) > 0, kv,
                             ApplyOps(kv, r.direct), <<>>, grew, FALSE)
    /\ UNCHANGED <<backend, txn, wr, iterVars, ph, otherVars>>

\* batch.Close()
BClose ==
    /\ wr.pc = "idle"
    /\ bat.live
    /\ LET r == BatchClose(backend, bat, txn)
       IN  /\ bat' = r.bat
           /\ txn' = r.txn
           /\ bh' = [Returned("Close", r.err, TRUE, kv, kv, <<>>, FALSE, TRUE)
                        EXCEPT !.committed = bh.committed]
    /\ UNCHANGED <<backend, kv, wr, iterVars, ph, otherVars>>

\* batch.Write() / batch.WriteSync(): the whole call, or, on the split
\* SQLite batch, the call up to the transaction's Begin
BWrite(sync, ok) ==
    /\ wr.pc = "idle"
    /\ bat.live
    /\ IF backend = "sqlite"
       THEN LET r == sqliteBatchWriteBegin(bat, txn, kv, ok)
            IN  /\ ~ok => r.err = ErrEngine
                /\ bat' = r.bat
                /\ txn' = r.txn
                /\ kv' = kv
                /\ IF r.begun
                   THEN /\ wr' = [pc |-> "exec", sync |-> sync, i |-> 1]
                        /\ bh' = [Returned(WriteName(sync), NoErr, TRUE, kv, kv, bat.ops,
                                           FALSE, FALSE)
                                     EXCEPT !.fresh = FALSE]
                   ELSE /\ wr' = wr
                        /\ bh' = [Returned(WriteName(sync), r.err, TRUE, kv, kv, bat.ops,
                                           FALSE, FALSE)
                                     EXCEPT !.fresh = FALSE]
       ELSE LET r == BatchWrite(backend, bat, txn, kv, sync, ok)
            IN  /\ ~ok => r.err = ErrEngine
                /\ bat' = r.bat
                /\ txn' = r.txn
                /\ kv' = r.store
                /\ wr' = wr
                /\ bh' = [Returned(WriteName(sync), r.err, TRUE, kv, r.store, bat.ops,
                                   FALSE, r.err = NoErr)
                             EXCEPT !.fresh = FALSE]
    /\ UNCHANGED <<backend, iterVars, ph, otherVars>>

\* one turn of write()'s loop on the split SQLite batch
BExec(ok) ==
    /\ wr.pc = "exec"
    /\ wr.i <= Len(bat.ops)
    /\ IF ok
       THEN LET e == sqliteBatchExec(txn, kv, bat.ops[wr.i])
            IN  /\ txn' = e.txn
                /\ kv' = e.store
                /\ wr' = [wr EXCEPT !.i = @ + 1]
                /\ UNCHANGED <<bat, bh>>
       ELSE LET r == sqliteBatchWriteFailed(bat, txn, kv, ErrEngine)
            IN  /\ bat' = r.bat
                /\ txn' = r.txn
                /\ kv' = r.store
                /\ wr' = WrIdle
                /\ bh' = [Returned(bh.op, r.err, TRUE, bh.pre, r.store, bh.written, FALSE, TRUE)
                             EXCEPT !.wasFresh = bh.wasFresh,
                                    !.wasCommitted = bh.wasCommitted]
    /\ UNCHANGED <<backend, iterVars, ph, otherVars>>

\* the end of write() and of Write / WriteSync on the split SQLite batch
BEnd(ok) ==
    /\ wr.pc = "exec"
    /\ wr.i > Len(bat.ops)
    /\ LET r == sqliteBatchWriteEnd(bat, txn, kv, wr.sync, ok)
       IN  /\ bat' = r.bat
           /\ txn' = r.txn
           /\ kv' = r.store
           /\ wr' = WrIdle
           /\ bh' = [Returned(bh.op, r.err, TRUE, bh.pre, r.store, bh.written, FALSE, TRUE)
                        EXCEPT !.wasFresh = bh.wasFresh,
                               !.wasCommitted = bh.wasCommitted,
                               !.injected = ~ok]
    /\ UNCHANGED <<backend, iterVars, ph, otherVars>>

BatchStep ==
    /\ \/ BNewBatch
       \/ \E key \in BatchKeyArgs, value \in ValueArgs : BSet(key, value)
       \/ \E key \in BatchKeyArgs : BDelete(key)
       \/ \E sync \in BOOLEAN, ok \in BOOLEAN : BWrite(sync, ok)
       \/ \E ok \in BOOLEAN : BExec(ok)
       \/ \E ok \in BOOLEAN : BEnd(ok)
       \/ BClose
    /\ UNCHANGED life

SpecBatch == BatchInit /\ [][BatchStep]_vars

(***************************************************************************)
(* The life of one batch: the same calls, on one key and one value, with   *)
(* the record of what has happened to the batch since NewBatch().          *)
(***************************************************************************)
LifeKeyArgs == {B(<<>>), B(<<1>>)}

LifeValueArgs == {NilBytes, B(<<>>)}

\* life after a step that left the caller's record h; same: the step left
\* the batch object as it was
LifeAfter(l, h, idle, same) ==
    IF h.op = "NewBatch" THEN NoLife
    ELSE [discarded |-> l.discarded \/ (h.op = "Close" /\ h.wasFresh),
          failed |-> l.failed \/ (idle /\ h.op \in {"Write", "WriteSync"}
                                     /\ h.wasFresh /\ h.injected),
          closes |-> IF h.op # "Close" THEN l.closes
                     ELSE IF l.closes = 0 THEN 1 ELSE 2,
          batSame |-> same]

LifeStep ==
    /\ \/ BNewBatch
       \/ \E key \in LifeKeyArgs, value \in LifeValueArgs : BSet(key, value)
       \/ \E key \in LifeKeyArgs : BDelete(key)
       \/ \E sync \in BOOLEAN, ok \in BOOLEAN : BWrite(sync, ok)
       \/ \E ok \in BOOLEAN : BExec(ok)
       \/ \E ok \in BOOLEAN : BEnd(ok)
       \/ BClose
    /\ life' = LifeAfter(life, bh', wr'.pc = "idle", bat' = bat)

SpecLife == BatchInit /\ [][LifeStep]_vars

(***************************************************************************)
(* One batch next to another caller of the store: the calls of SpecLife,   *)
(* and between them the other caller's Set and Delete.  life holds the     *)
(* operations buffered and not yet applied by a commit (pending), those    *)
(* pending when the last Write / WriteSync was called (atCall), those the  *)
(* last commit applied (done) and whether the other caller has changed     *)
(* the store since (other).                                                *)
(***************************************************************************)
NoOnce == [pending |-> <<>>, atCall |-> <<>>, done |-> <<>>, other |-> FALSE]

OnceInit ==
    /\ backend \in BatchBackends
    /\ kv = <<>>
    /\ itr = NoItr
    /\ ih = NoIh
    /\ bat = NoBat
    /\ txn = NoTxn
    /\ wr = WrIdle
    /\ bh = NoBh
    /\ life = NoOnce
    /\ ph = NoPh
    /\ pool = NoPool /\ rh = NoRh /\ cc = NoCc /\ sy = NoSy /\ al = NoAl

\* life after a commit was attempted; applied: the engine applied it (a
\* commit of an empty buffer applies nothing)
OnceCommitted(l, applied) ==
    IF applied /\ l.pending # <<>> THEN [l EXCEPT !.pending = <<>>, !.done = l.pending, !.other = FALSE]
    ELSE l

\* life after Set / Delete left the batch b
OnceBuffered(l, b) ==
    IF bh'.grew THEN [l EXCEPT !.pending = Append(@, b.ops[Len(b.ops)])] ELSE l

OnceNewBatch == BNewBatch /\ life' = NoOnce

OnceSet(key, value) ==
    /\ Len(life.pending) < MaxObjs
    /\ BSet(key, value)
    /\ life' = OnceBuffered(life, bat')

OnceDelete(key) ==
    /\ Len(life.pending) < MaxObjs
    /\ BDelete(key)
    /\ life' = OnceBuffered(life, bat')

OnceWrite(sync, ok) ==
    /\ BWrite(sync, ok)
    /\ life' = OnceCommitted([life EXCEPT !.atCall = life.pending],
                             backend # "sqlite" /\ bh'.ret = NoErr)

OnceExec(ok) == BExec(ok) /\ life' = life

OnceEnd(ok) == BEnd(ok) /\ life' = OnceCommitted(life, ok)

OnceClose == BClose /\ life' = life

\* db.Set(key, value) by another caller, between two calls on the batch
OnceOtherSet(key, value) ==
    /\ bat.live /\ wr.pc = "idle"
    /\ kv' = Set(kv, key, value).store
    /\ kv' # kv
    /\ life' = [life EXCEPT !.other = TRUE]
    /\ UNCHANGED <<backend, bat, txn, wr, bh, iterVars, ph, otherVars>>

\* db.Delete(key) by another caller
OnceOtherDelete(key) ==
    /\ bat.live /\ wr.pc = "idle"
    /\ kv' = Delete(kv, key).store
    /\ kv' # kv
    /\ life' = [life EXCEPT !.other = TRUE]
    /\ UNCHANGED <<backend, bat, txn, wr, bh, iterVars, ph, otherVars>>

OnceStep ==
    \/ OnceNewBatch
    \/ \E key \in LifeKeyArgs, value \in LifeValueArgs : OnceSet(key, value)
    \/ \E key \in LifeKeyArgs : OnceDelete(key)
    \/ \E sync \in BOOLEAN, ok \in BOOLEAN : OnceWrite(sync, ok)
    \/ \E ok \in BOOLEAN : OnceExec(ok)
    \/ \E ok \in BOOLEAN : OnceEnd(ok)
    \/ OnceClose
    \/ \E key \in LifeKeyArgs, value \in {B(<<7>>)} : OnceOtherSet(key, value)
    \/ \E key \in LifeKeyArgs : OnceOtherDelete(key)

SpecOnce == OnceInit /\ [][OnceStep]_vars

(***************************************************************************)
(* The caller of the point operations: one store, any sequence of Get,     *)
(* Has, Set, SetSync, Delete and DeleteSync, and Set and Delete on a batch  *)
(* that was just created or just closed.                                    *)
(***************************************************************************)
PointKeyArgs == BatchKeyArgs

PointInit ==
    /\ backend \in PointBackends
    /\ kv = <<>>
    /\ itr = NoItr
    /\ ih = NoIh
    /\ bat = NoBat
    /\ txn = NoTxn
    /\ wr = WrIdle
    /\ bh = NoBh
    /\ life = NoLife
    /\ ph = NoPh
    /\ pool = NoPool /\ rh = NoRh /\ cc = NoCc /\ sy = NoSy /\ al = NoAl

\* the caller's record of a point operation that returned r
PointReturned(name, key, value, ok, r) ==
    [NoPh EXCEPT !.op = name, !.key = key, !.value = value, !.ok = ok,
                 !.err = r.err, !.out = r.value, !.has = r.has,
                 !.pre = kv, !.post = r.store,
                 !.was = IF name \in {"Set", "SetSync"} /\ r.err = NoErr
                         THEN ph.was \cup {key.bytes} ELSE ph.was]

PointCall(name, key, value, ok, r) ==
    /\ kv' = r.store
    /\ ph' = PointReturned(name, key, value, ok, r)
    /\ UNCHANGED <<backend, iterVars, batchVars, otherVars>>

PGet(key, ok) == PointCall("Get", key, NilBytes, ok, DBGet(backend, kv, key, ok))

PHas(key, ok) == PointCall("Has", key, NilBytes, ok, DBHas(backend, kv, key, ok))

PSet(key, value, ok) ==
    PointCall("Set", key, value, ok, DBSet(backend, kv, key, value, ok))

PSetSync(key, value, ok) ==
    PointCall("SetSync", key, value, ok, DBSetSync(backend, kv, key, value, ok))

PDelete(key, ok) ==
    PointCall("Delete", key, NilBytes, ok, DBDelete(backend, kv, key, ok))

PDeleteSync(key, ok) ==
    PointCall("DeleteSync", key, NilBytes, ok, DBDeleteSync(backend, kv, key, ok))

\* db.NewBatch(), or db.NewBatch() followed by Close()
PointBatch(closed) ==
    IF closed THEN BatchClose(backend, NewBatch, NoTxn).bat ELSE NewBatch

\* the caller's record of a Set or Delete on the batch b that returned r
PointBuffered(name, key, value, closed, b, r) ==
    /\ kv' = ApplyOps(kv, r.direct)
    /\ ph' = [NoPh EXCEPT !.op = name, !.key = key, !.value = value,
                          !.err = r.err, !.pre = kv, !.post = ApplyOps(kv, r.direct),
                          !.was = ph.was, !.closed = closed,
                          !.bufPre = b.ops, !.bufPost = r.bat.ops]
    /\ UNCHANGED <<backend, iterVars, batchVars, otherVars>>

PBatchSet(key, value, closed) ==
    PointBuffered("BatchSet", key, value, closed, PointBatch(closed),
                  BatchSet(backend, PointBatch(closed), key, value))

PBatchDelete(key, closed) ==
    PointBuffered("BatchDelete", key, NilBytes, closed, PointBatch(closed),
                  BatchDelete(backend, PointBatch(closed), key))

PointStep ==
    \/ \E key \in PointKeyArgs, ok \in BOOLEAN : PGet(key, ok)
    \/ \E key \in PointKeyArgs, ok \in BOOLEAN : PHas(key, ok)
    \/ \E key \in PointKeyArgs, value \in ValueArgs, ok \in BOOLEAN : PSet(key, value, ok)
    \/ \E key \in PointKeyArgs, value \in ValueArgs, ok \in BOOLEAN : PSetSync(key, value, ok)
    \/ \E key \in PointKeyArgs, ok \in BOOLEAN : PDelete(key, ok)
    \/ \E key \in PointKeyArgs, ok \in BOOLEAN : PDeleteSync(key, ok)
    \/ \E key \in PointKeyArgs, value \in ValueArgs, closed \in BOOLEAN :
           PBatchSet(key, value, closed)
    \/ \E key \in PointKeyArgs, closed \in BOOLEAN : PBatchDelete(key, closed)

SpecPoint == PointInit /\ [][PointStep]_vars

(***************************************************************************)
(* The caller of iteratorPool: it opens iterators, reads them, and closes   *)
(* them any number of times, keeping every handle it got.  A pebbleDB       *)
(* iterator is an object taken from iteratorPool and put back by Close();   *)
(* an SQLite iterator is a new object every time.                           *)
(***************************************************************************)
\* iteratorPool.Get(): one of the pooled objects (pick is its place in the
\* pool), or a new one from New (pick = 0); sync.Pool promises neither
PoolGet(pl, pick) ==
    IF pick = 0
    THEN [id |-> Len(pl.objs) + 1, pool |-> [pl EXCEPT !.objs = Append(@, NoItr)]]
    ELSE [id |-> pl.free[pick],
          pool |-> [pl EXCEPT !.free = SubSeq(@, 1, pick - 1)
                                        \o SubSeq(@, pick + 1, Len(@))]]

\* iteratorPool.Put(itr)
PoolPut(pl, id) == [pl EXCEPT !.free = Append(@, id)]

PoolBounds == {NilBytes, B(<<2>>)}

PoolInit ==
    /\ backend \in IterBackends
    /\ kv \in IterStores
    /\ itr = NoItr
    /\ ih = NoIh
    /\ bat = NoBat
    /\ txn = NoTxn
    /\ wr = WrIdle
    /\ bh = NoBh
    /\ life = NoLife
    /\ ph = NoPh
    /\ pool = NoPool /\ rh = NoRh /\ cc = NoCc /\ sy = NoSy /\ al = NoAl

\* db.Iterator(start, end) or db.ReverseIterator(start, end) returning an
\* iterator: newPebbleDBIterator fills the object it got from the pool
PoolOpen(rev, start, end, pick) ==
    /\ Len(rh.hs) < MaxObjs
    /\ pick \in 0..Len(pool.free)
    /\ pick = 0 => Len(pool.objs) < MaxObjs
    /\ backend # "pebble" => pick = 0
    /\ LET r == IF rev THEN DBReverseIterator(backend, kv, start, end, 0, 0)
                ELSE DBIterator(backend, kv, start, end, 0, 0)
           g == PoolGet(pool, pick)
       IN  /\ r.err = NoErr
           /\ pool' = [g.pool EXCEPT !.objs[g.id] = r.it]
           /\ rh' = [rh EXCEPT !.hs = Append(@, g.id), !.op = "Open",
                               !.h = Len(rh.hs) + 1, !.err = r.err,
                               !.panicked = FALSE, !.again = FALSE, !.same = FALSE]
    /\ UNCHANGED <<backend, kv, iterVars, batchVars, ph, cc, sy, al>>

\* itr.Next() on a handle that is valid and was not closed
PoolNext(h) ==
    /\ h \in 1..Len(rh.hs) /\ h \notin rh.rel
    /\ LET id == rh.hs[h]
           v == Valid(backend, pool.objs[id])
           n == Next(backend, v.it)
       IN  /\ v.ret
           /\ pool' = [pool EXCEPT !.objs[id] = n.it]
           /\ rh' = [rh EXCEPT !.op = "Next", !.h = h, !.err = NoErr,
                               !.panicked = n.panic, !.again = FALSE, !.same = FALSE]
    /\ UNCHANGED <<backend, kv, iterVars, batchVars, ph, cc, sy, al>>

\* itr.Close() on any handle, closed before or not
PoolClose(h) ==
    /\ h \in 1..Len(rh.hs)
    /\ LET id == rh.hs[h]
           c == Close(backend, pool.objs[id])
           closed == [pool EXCEPT !.objs[id] = c.it]
       IN  /\ pool' = IF c.panic THEN pool
                      ELSE IF backend = "pebble" THEN PoolPut(closed, id)
                      ELSE closed
           /\ rh' = [rh EXCEPT !.op = "Close", !.h = h, !.err = c.err,
                               !.panicked = c.panic, !.again = (h \in rh.rel),
                               !.same = (pool' = pool),
                               !.rel = IF c.panic THEN @ ELSE @ \cup {h}]
    /\ UNCHANGED <<backend, kv, iterVars, batchVars, ph, cc, sy, al>>

PoolStep ==
    \/ \E rev \in BOOLEAN, start \in PoolBounds, end \in PoolBounds, pick \in 0..MaxObjs :
           PoolOpen(rev, start, end, pick)
    \/ \E h \in 1..MaxObjs : PoolNext(h)
    \/ \E h \in 1..MaxObjs : PoolClose(h)

SpecPool == PoolInit /\ [][PoolStep]_vars

(***************************************************************************)
(* Concurrent callers of one PebbleDB: each runs  Set(key, value);          *)
(* Get(key)  in a loop, on a new key of its own in every round (MaxByte     *)
(* rounds).  A facade call keeps no                                         *)
(* state outside the engine and makes one engine call, which the engine     *)
(* runs atomically, so the calls interleave as wholes.                      *)
(***************************************************************************)
\* key_i_j, the key of caller i in round j: no two callers share a key
ConcKey(i, j) == B(<<i, j>>)

ConcInit ==
    /\ backend = "pebble"
    /\ kv = <<>>
    /\ itr = NoItr
    /\ ih = NoIh
    /\ bat = NoBat
    /\ txn = NoTxn
    /\ wr = WrIdle
    /\ bh = NoBh
    /\ life = NoLife
    /\ ph = NoPh
    /\ pool = NoPool /\ rh = NoRh /\ cc = NoCc /\ sy = NoSy /\ al = NoAl

\* err := db.Set(key, value); require.NoError(t, err)
ConcSet(i, value) ==
    /\ cc[i].pc = "set" /\ cc[i].j <= MaxByte
    /\ LET r == DBSet(backend, kv, ConcKey(i, cc[i].j), value, TRUE)
       IN  /\ kv' = r.store
           /\ cc' = [cc EXCEPT ![i] = [pc |-> "get", j |-> cc[i].j, value |-> value,
                                       got |-> NilBytes, err |-> r.err, read |-> FALSE]]
    /\ UNCHANGED <<backend, iterVars, batchVars, ph, pool, rh, sy, al>>

\* readValue, err := db.Get(key)
ConcGet(i) ==
    /\ cc[i].pc = "get"
    /\ LET r == DBGet(backend, kv, ConcKey(i, cc[i].j), TRUE)
       IN  cc' = [cc EXCEPT ![i] = [pc |-> "set", j |-> cc[i].j + 1, value |-> cc[i].value,
                                    got |-> r.value, err |-> r.err, read |-> TRUE]]
    /\ UNCHANGED <<backend, kv, iterVars, batchVars, ph, pool, rh, sy, al>>

ConcStep ==
    \/ \E i \in Callers, value \in ValueArgs \ {NilBytes} : ConcSet(i, value)
    \/ \E i \in Callers : ConcGet(i)

SpecConc == ConcInit /\ [][ConcStep]_vars

(***************************************************************************)
(* ForceSync.  The linker may set the package variable ForceSync; init()    *)
(* turns it into isForceSync, which the writes of PebbleDB and of its       *)
(* batch read when they choose the options of their engine write.           *)
(***************************************************************************)
\* what -X ...ForceSync=... may set, besides the default "0"
ForceSyncValues == {"0", "1", "", "true"}

\* init(): if ForceSync == "1" { isForceSync = true }
PebbleInitForceSync(ForceSync) == ForceSync = "1"

\* write options that never look at isForceSync
PebbleWriteOptionsUnforced(op, isForceSync) ==
    IF op \in {"SetSync", "DeleteSync", "WriteSync"} THEN "Sync" ELSE "NoSync"

\* the options PebbleDB.Set / SetSync / Delete / DeleteSync and
\* pebbleDBBatch.Write / WriteSync pass to the engine
PebbleWriteOptions(op, isForceSync) ==
    IF op \in {"SetSync", "DeleteSync", "WriteSync"} THEN "Sync"
    ELSE IF isForceSync THEN "Sync"
    ELSE "NoSync"

SyncInit ==
    /\ backend = "pebble"
    /\ kv = <<>>
    /\ itr = NoItr
    /\ ih = NoIh
    /\ bat = NoBat
    /\ txn = NoTxn
    /\ wr = WrIdle
    /\ bh = NoBh
    /\ life = NoLife
    /\ ph = NoPh
    /\ pool = NoPool /\ rh = NoRh /\ cc = NoCc /\ al = NoAl
    /\ \E f \in ForceSyncValues :
           sy = [NoSy EXCEPT !.ForceSync = f, !.isForceSync = PebbleInitForceSync(f)]

\* a write that left store; issued: the call reached its engine write
SyncCall(op, store, issued) ==
    /\ kv' = store
    /\ sy' = [sy EXCEPT !.op = op, !.issued = issued,
                        !.wopts = IF issued THEN PebbleWriteOptions(op, sy.isForceSync)
                                  ELSE "none"]
    /\ UNCHANGED <<backend, iterVars, batchVars, ph, pool, rh, cc, al>>

SyncSet(key, value, ok) ==
    SyncCall("Set", PebbleDBset(kv, key, value, ok).store,
             LenB(key) > 0 /\ ~value.isNil)

SyncSetSync(key, value, ok) ==
    SyncCall("SetSync", PebbleDBset(kv, key, value, ok).store,
             LenB(key) > 0 /\ ~value.isNil)

SyncDelete(key, ok) ==
    SyncCall("Delete", PebbleDBDelete(kv, key, ok).store, LenB(key) > 0)

SyncDeleteSync(key, ok) ==
    SyncCall("DeleteSync", PebbleDBDeleteSync(kv, key, ok).store, LenB(key) > 0)

\* Write() or WriteSync() on a batch holding one Set, open or closed
SyncWrite(sync, key, value, closed, ok) ==
    LET b == pebbleDBBatchSet(NewBatch, key, value).bat
        c == IF closed THEN pebbleDBBatchClose(b, NoTxn).bat ELSE b
    IN  SyncCall(WriteName(sync), pebbleDBBatchWrite(c, NoTxn, kv, sync, ok).store,
                 ~c.batchNil)

SyncStep ==
    \/ \E key \in PointKeyArgs, value \in ValueArgs, ok \in BOOLEAN : SyncSet(key, value, ok)
    \/ \E key \in PointKeyArgs, value \in ValueArgs, ok \in BOOLEAN : SyncSetSync(key, value, ok)
    \/ \E key \in PointKeyArgs, ok \in BOOLEAN : SyncDelete(key, ok)
    \/ \E key \in PointKeyArgs, ok \in BOOLEAN : SyncDeleteSync(key, ok)
    \/ \E sync \in BOOLEAN, key \in PointKeyArgs, value \in ValueArgs,
          closed \in BOOLEAN, ok \in BOOLEAN : SyncWrite(sync, key, value, closed, ok)

SpecSync == SyncInit /\ [][SyncStep]_vars

(***************************************************************************)
(* Byte buffers.  A []byte is a view of a buffer; two slices alias when    *)
(* they view the same buffer.  heap[a] holds the contents of the buffer at *)
(* address a.  The iterator reads its current key and value from buffers   *)
(* of its own (itr.key / itr.value, filled by rows.Scan, for SQLite; what  *)
(* source.Key() / source.Value() return for Pebble).                       *)
(***************************************************************************)
\* an accessor that hands out the iterator's own buffer
cpShared(heap, a) == [heap |-> heap, addr |-> a]

\* cp(bz): make([]byte, len(bz)) and copy(ret, bz): a new buffer
cpAt(heap, a) == [heap |-> Append(heap, heap[a]), addr |-> Len(heap) + 1]

\* the bytes Key() / Value() copy at the iterator's position
RawKey(be, it) ==
    IF be = "pebble" THEN PebbleSourceKey(it.rows).bytes ELSE it.key.bytes

RawValue(be, it) ==
    IF be = "pebble" THEN PebbleSourceValue(it.rows).bytes ELSE it.value.bytes

\* what a caller writes over a slice it was handed
Scribble(bytes) == [i \in 1..Len(bytes) |-> 0]

AliasInit ==
    /\ backend \in IterBackends
    /\ kv \in IterStores
    /\ itr = NoItr
    /\ ih = NoIh
    /\ bat = NoBat
    /\ txn = NoTxn
    /\ wr = WrIdle
    /\ bh = NoBh
    /\ life = NoLife
    /\ ph = NoPh
    /\ pool = NoPool /\ rh = NoRh /\ cc = NoCc /\ sy = NoSy
    /\ al = NoAl

\* db.Iterator(start, end) or db.ReverseIterator(start, end)
AliasOpen(rev, start, end) ==
    /\ al.op = "none"
    /\ LET r == IF rev THEN DBReverseIterator(backend, kv, start, end, 0, 0)
                ELSE DBIterator(backend, kv, start, end, 0, 0)
       IN  /\ r.err = NoErr
           /\ itr' = r.it
           /\ al' = [NoAl EXCEPT !.heap = <<RawKey(backend, r.it), RawValue(backend, r.it)>>,
                                 !.key = 1, !.value = 2, !.op = "open"]
    /\ UNCHANGED <<backend, kv, ih, batchVars, ph, pool, rh, cc, sy>>

\* itr.Key() (kind "key") or itr.Value() (kind "value") on a valid iterator
AliasGet(kind) ==
    /\ itr.live /\ al.op # "close"
    /\ Len(al.got) < MaxObjs
    /\ LET v == Valid(backend, itr)
           c == cpAt(al.heap, al[kind])
       IN  /\ v.ret
           /\ itr' = v.it
           /\ al' = [al EXCEPT !.heap = c.heap, !.op = kind,
                               !.got = Append(@, [addr |-> c.addr, kind |-> kind,
                                                  bytes |-> c.heap[c.addr], n |-> al.n,
                                                  mine |-> FALSE])]
    /\ UNCHANGED <<backend, kv, ih, batchVars, ph, pool, rh, cc, sy>>

\* the caller writes over the i-th slice it was handed
AliasOverwrite(i) ==
    /\ i \in DOMAIN al.got
    /\ ~al.got[i].mine
    /\ Len(al.heap[al.got[i].addr]) > 0
    /\ al' = [al EXCEPT !.heap[al.got[i].addr] = Scribble(@), !.got[i].mine = TRUE,
                        !.op = "overwrite"]
    /\ UNCHANGED <<backend, kv, itr, ih, batchVars, ph, pool, rh, cc, sy>>

\* itr.Next() on a valid iterator.  rows.Scan stores a new slice in itr.key
\* and itr.value; the Pebble source may write the entry into the buffers it
\* handed out before (reuse) or into new ones.
AliasNext(reuse) ==
    /\ itr.live /\ al.op # "close"
    /\ Valid(backend, itr).ret
    /\ reuse => backend = "pebble"
    /\ LET n == Next(backend, itr)
           k == RawKey(backend, n.it)
           w == RawValue(backend, n.it)
       IN  /\ itr' = n.it
           /\ al' = IF reuse
                    THEN [al EXCEPT !.heap[al.key] = k, !.heap[al.value] = w,
                                    !.n = @ + 1, !.op = "next"]
                    ELSE [al EXCEPT !.heap = @ \o <<k, w>>,
                                    !.key = Len(al.heap) + 1, !.value = Len(al.heap) + 2,
                                    !.n = @ + 1, !.op = "next"]
    /\ UNCHANGED <<backend, kv, ih, batchVars, ph, pool, rh, cc, sy>>

\* itr.Close(): the Pebble source gives up its buffers, whose contents are
\* then anything (clobber) or left as they were
AliasClose(clobber) ==
    /\ itr.live /\ al.op # "close"
    /\ clobber => backend = "pebble"
    /\ itr' = Close(backend, itr).it
    /\ al' = IF clobber
             THEN [al EXCEPT !.heap[al.key] = Scribble(@), !.heap[al.value] = Scribble(@),
                             !.op = "close"]
             ELSE [al EXCEPT !.op = "close"]
    /\ UNCHANGED <<backend, kv, ih, batchVars, ph, pool, rh, cc, sy>>

AliasStep ==
    \/ \E rev \in BOOLEAN, start \in PoolBounds, end \in {NilBytes} : AliasOpen(rev, start, end)
    \/ \E kind \in {"key", "value"} : AliasGet(kind)
    \/ \E i \in 1..MaxObjs : AliasOverwrite(i)
    \/ \E reuse \in BOOLEAN : AliasNext(reuse)
    \/ \E clobber \in BOOLEAN : AliasClose(clobber)

SpecAlias == AliasInit /\ [][AliasStep]_vars

(***************************************************************************)
(* Claims about iterators.                                                 *)
(***************************************************************************)
\* the caller passed bounds that are nil or non-empty, and the engine did not fail
GoodOpen(rev) ==
    /\ ih.op # "none"
    /\ ih.argRev = rev
    /\ ~BadBounds(ih.argStart, ih.argEnd)
    /\ ~ih.failing

\* C1: on the split SQLite adapter, Iterator(start, end) with nil or non-empty
\* bounds returns an iterator, and reading it to the end yields exactly the
\* entries with start <= key < end, ascending, with their values.
C1_AscendingRangeCorrect ==
    (backend = "sqlite" /\ GoodOpen(FALSE)) =>
        /\ ih.err = NoErr
        /\ ih.done => ih.yielded = ih.expected

\* C2: on the split SQLite adapter, ReverseIterator(start, end) read to the end
\* yields the keys of the ascending iterator over the same range, descending.
C2_DescendingRangeCorrect ==
    (backend = "sqlite" /\ GoodOpen(TRUE)) =>
        /\ ih.err = NoErr
        /\ ih.done => ih.yielded = ih.expected

\* C3: once Valid() has returned false it returns false for ever, whatever
\* Next() calls and concurrent writes follow.
C3_InvalidIsAbsorbing == ih.done => ~Valid(backend, itr).ret

C3_Witness ==
    /\ ih.done /\ ih.panicked /\ ih.mutated
    /\ Len(ih.yielded) >= 2 /\ ih.yielded = ih.expected
    /\ ~Valid(backend, itr).ret

ProperRange(start, end) ==
    start.isNil \/ end.isNil \/ BytesCompare(start, end) < 0

\* C4: whenever Valid() is true on an iterator over a range with start < end
\* (or an open side), a key that Key() returns is a key of that range (start
\* inclusive, end exclusive), in both directions.
C4_NoOutOfRangeKey ==
    (itr.live /\ ProperRange(ih.argStart, ih.argEnd) /\ Valid(backend, itr).ret) =>
        LET k == Key(backend, itr).ret
        IN  LenB(k) > 0 => InRange(k.bytes, ih.argStart, ih.argEnd)

(***************************************************************************)
(* Batches.                                                                *)
(***************************************************************************)
\* db.Set / db.Delete applied one after the other, in the order buffered
RECURSIVE SequentialApply(_, _)
SequentialApply(store, ops) ==
    IF ops = <<>> THEN store
    ELSE LET op == Head(ops)
             r == IF op.type = "set" THEN Set(store, B(op.key), B(op.value))
                  ELSE Delete(store, B(op.key))
         IN  SequentialApply(r.store, Tail(ops))

WriteReturned == wr.pc = "idle" /\ bh.op \in {"Write", "WriteSync"}

IsClosedErr(e) == e \in {errBatchClosed, ErrClosedBatchWrite, ErrAlreadyWritten}

\* C5: after Write() or WriteSync() returned nil, the store is the store
\* before the call with the buffered operations applied one by one in
\* buffer order.
C5_BatchEqualsSequential ==
    (WriteReturned /\ bh.ret = NoErr) => bh.post = SequentialApply(bh.pre, bh.written)

\* Scenario D: Set, Delete, Set of one key in one batch, written
C5_Witness ==
    /\ WriteReturned /\ bh.ret = NoErr /\ backend = "sqlite"
    /\ Len(bh.written) = 3
    /\ bh.written[1].type = "set" /\ bh.written[2].type = "delete"
    /\ bh.written[3].type = "set"
    /\ bh.written[1].key = bh.written[3].key /\ bh.written[2].key = bh.written[3].key
    /\ bh.written[1].value # bh.written[3].value
    /\ bh.post[bh.written[3].key] = bh.written[3].value

\* C6: while a batch is being written, a reader sees the store as it was
\* before the write or with the whole batch applied, never a part of it.
C6_CommitAtomicForReaders ==
    wr.pc = "exec" => kv \in {bh.pre, SequentialApply(bh.pre, bh.written)}

C6_Witness ==
    /\ wr.pc = "exec" /\ wr.i > 1
    /\ txn.st = "open"
    /\ txn.view \notin {bh.pre, SequentialApply(bh.pre, bh.written)}
    /\ kv = bh.pre

\* C7: after Write() or WriteSync() returned an error, the store holds none
\* of the batch's operations or all of them.
C7_AllOrNothingOnFailure ==
    (WriteReturned /\ bh.ret # NoErr) =>
        bh.post \in {bh.pre, SequentialApply(bh.pre, bh.written)}

C7_Witness ==
    /\ WriteReturned /\ bh.ret = ErrEngine
    /\ bh.execd >= 1 /\ bh.execd < Len(bh.written)
    /\ SequentialApply(bh.pre, SubSeq(bh.written, 1, bh.execd))
          \notin {bh.pre, SequentialApply(bh.pre, bh.written)}
    /\ bh.post = bh.pre /\ kv = bh.pre

\* C8: a batch fresh from NewBatch() is open: Set and Delete with valid
\* arguments succeed and buffer the operation, and Write / WriteSync are not
\* refused as calls on a closed batch.
C8_FreshBatchIsOpen ==
    (bh.wasFresh /\ bh.argsOk) =>
        /\ bh.op \in {"Set", "Delete"} => bh.ret = NoErr /\ bh.grew
        /\ bh.op \in {"Write", "WriteSync"} => ~IsClosedErr(bh.ret)

\* C9: on the split SQLite batch, Write() and WriteSync() of a batch not yet
\* written have the same effect: with no engine failure both return nil and
\* leave the store with the batch applied.
C9_WriteSyncSameAsWrite ==
    (backend = "sqlite" /\ WriteReturned /\ bh.wasFresh /\ ~bh.injected) =>
        /\ bh.ret = NoErr
        /\ bh.post = SequentialApply(bh.pre, bh.written)

\* C10: once Write() or WriteSync() has returned nil, every later Set,
\* Delete, Write and WriteSync on that batch fails with a closed-batch error
\* and leaves the store unchanged.
C10_CommittedBatchIsClosed ==
    (wr.pc = "idle" /\ bh.wasCommitted /\ bh.argsOk
        /\ bh.op \in {"Set", "Delete", "Write", "WriteSync"}) =>
        /\ IsClosedErr(bh.ret)
        /\ bh.post = bh.pre

\* C11: Close() on a batch that was never written leaves the store
\* unchanged, and every later Set, Delete, Write and WriteSync on that batch
\* fails with a closed-batch error and leaves the store unchanged.
C11_DiscardCloses ==
    /\ (bh.op = "Close" /\ bh.wasFresh) => bh.post = bh.pre
    /\ (wr.pc = "idle" /\ life.discarded /\ bh.argsOk
           /\ bh.op \in {"Set", "Delete", "Write", "WriteSync"}) =>
           /\ IsClosedErr(bh.ret)
           /\ bh.post = bh.pre

\* C12: Close() on a batch that was successfully written, or was closed
\* before, returns nil and changes neither the store nor the batch.
C12_CloseIdempotent ==
    (bh.op = "Close" /\ (bh.wasCommitted \/ life.closes = 2)) =>
        /\ bh.ret = NoErr
        /\ bh.post = bh.pre
        /\ life.batSame

\* C13: after Write() or WriteSync() on an open batch returned an engine
\* error, every later Set, Delete, Write and WriteSync on that batch fails
\* with a closed-batch error.
C13_FailedCommitCloses ==
    (wr.pc = "idle" /\ life.failed /\ bh.argsOk
        /\ (bh.op \in {"Set", "Delete"}
            \/ (bh.op \in {"Write", "WriteSync"} /\ ~bh.wasFresh))) =>
        IsClosedErr(bh.ret)

\* C14: batch Set and Delete, whether they succeed or fail, leave the store
\* as it was: what readers see before Write / WriteSync is the store
\* without the batch.
C14_BufferingLeavesStore ==
    bh.op \in {"Set", "Delete"} => (bh.post = bh.pre /\ kv = bh.pre)

C14_Witness ==
    /\ bh.op \in {"Set", "Delete"} /\ bh.grew
    /\ Len(bat.ops) = 2 /\ bat.ops[1].type = "set" /\ bat.ops[2].type = "delete"
    /\ bh.wasFresh /\ bh.post = bh.pre /\ kv = bh.pre

(***************************************************************************)
(* Claims about the point operations.                                      *)
(***************************************************************************)
\* the last call was name on a non-empty key, and its engine call succeeded
PointCalled(names) == ph.op \in names /\ LenB(ph.key) > 0 /\ ph.ok

\* C15: Get of a non-empty key that holds the value of an earlier Set
\* returns that value as a non-nil byte sequence with a nil error, also when
\* the value has length zero: a stored empty value is never reported as nil.
C15_SetGetRoundTrip ==
    (PointCalled({"Get"}) /\ ph.key.bytes \in DOMAIN ph.pre) =>
        /\ ph.err = NoErr
        /\ ph.out = B(ph.pre[ph.key.bytes])

\* C16: Get of a non-empty key that the store does not hold, because no Set
\* stored it or a Delete removed it since, returns a nil value and a nil
\* error.
C16_NotFoundIsNotAnError ==
    (PointCalled({"Get"}) /\ ph.key.bytes \notin DOMAIN ph.pre) =>
        /\ ph.err = NoErr
        /\ ph.out = NilBytes
        /\ ph.post = ph.pre

\* a Get of a key that was stored and then deleted
C16_Witness ==
    /\ PointCalled({"Get"})
    /\ ph.key.bytes \in ph.was
    /\ ph.key.bytes \notin DOMAIN ph.pre
    /\ ph.pre # <<>>
    /\ ph.err = NoErr /\ ph.out = NilBytes

\* C17: Delete and DeleteSync of a non-empty key that the store does not
\* hold return a nil error and leave the store as it was, so a second
\* Delete of the same key changes nothing.
C17_DeleteIdempotent ==
    (ph.op \in {"Delete", "DeleteSync"} /\ LenB(ph.key) > 0
        /\ ph.key.bytes \notin DOMAIN ph.pre) =>
        /\ ph.post = ph.pre
        /\ ph.ok => ph.err = NoErr

\* a Delete of a key that was stored and has been deleted already
C17_Witness ==
    /\ PointCalled({"Delete", "DeleteSync"})
    /\ ph.key.bytes \in ph.was
    /\ ph.key.bytes \notin DOMAIN ph.pre
    /\ ph.pre # <<>>
    /\ ph.err = NoErr /\ ph.post = ph.pre /\ kv = ph.pre

EmptyKey(key) == LenB(key) = 0

\* C18: Get, Has, Set, SetSync, Delete, DeleteSync, batch Set and batch
\* Delete with a zero-length key return the key-empty error and change
\* neither the store nor the batch buffer; Iterator and ReverseIterator with
\* a non-nil zero-length bound return the key-empty error; and with a nil
\* bound on one or both sides and no zero-length bound they return an
\* iterator and no error, unless the engine fails.
C18_EmptyKeysFailFast ==
    /\ (ph.op # "none" /\ EmptyKey(ph.key)) =>
           /\ ph.err = errKeyEmpty
           /\ ph.post = ph.pre
           /\ ph.bufPost = ph.bufPre
    /\ (ih.op = "open" /\ BadBounds(ih.argStart, ih.argEnd)) =>
           /\ ih.err = errKeyEmpty
           /\ ~itr.live
    /\ (ih.op = "open" /\ ~BadBounds(ih.argStart, ih.argEnd) /\ ~ih.failing
           /\ (ih.argStart.isNil \/ ih.argEnd.isNil)) =>
           /\ ih.err = NoErr
           /\ itr.live

\* C20: after Close() has returned on an SQLite iterator, whatever its
\* position was, Valid() returns false and Key(), Value() and Next() panic;
\* a Key() called after the Close() returns no key.
C20_UseAfterReleaseIsFault ==
    (backend \in {"sqlite", "sqliteV1", "sqliteV2"} /\ ih.released) =>
        /\ ~Valid(backend, itr).ret
        /\ Key(backend, itr).panic
        /\ Value(backend, itr).panic
        /\ Next(backend, itr).panic
        /\ ih.op = "use" => (ih.panicked /\ ih.stale = NilBytes)

\* C25: when the engine fails the write that Set, SetSync, Delete or
\* DeleteSync hands to it, the call returns a non-nil error to its caller
\* (and the store is as before).
C25_WriteFailuresReachCaller ==
    (ph.op \in {"Set", "SetSync", "Delete", "DeleteSync"}
        /\ LenB(ph.key) > 0
        /\ (ph.op \in {"Set", "SetSync"} => ~ph.value.isNil)
        /\ ~ph.ok) =>
        /\ ph.err # NoErr
        /\ ph.post = ph.pre

(***************************************************************************)
(* More claims about iterators.                                            *)
(***************************************************************************)
\* C23: whenever Valid() returns false on an iterator, Key(), Value() and
\* Next() panic with 'iterator is invalid': Key() and Value() return
\* nothing, and Next() leaves the cursor where it was.
C23_InvalidUseIsFault ==
    /\ (itr.live /\ ~Valid(backend, itr).ret) =>
           /\ Key(backend, itr).panic /\ Key(backend, itr).ret = NilBytes
           /\ Value(backend, itr).panic /\ Value(backend, itr).ret = NilBytes
           /\ Next(backend, itr).panic
           /\ Next(backend, itr).it.rows = itr.rows
    /\ ih.op = "next" => ih.panicked

\* a Next() that panicked on an iterator that became invalid before the end
\* of its cursor, with an entry cached
C23_Witness ==
    /\ ih.op = "next" /\ ih.panicked
    /\ Len(ih.yielded) >= 1
    /\ ~itr.key.isNil
    /\ itr.rows.pos < Len(itr.rows.data)
    /\ ~Valid(backend, itr).ret

\* the cursor of the iterator has failed a fetch or a scan
EngineFailed(it) ==
    \/ it.rows.failAt # 0 /\ it.rows.err
    \/ it.rows.scanFailAt # 0 /\ it.rows.pos >= it.rows.scanFailAt

\* C24: once the cursor of an iterator has failed, while the iterator was
\* positioned or advanced, Valid() returns false and Error() returns a
\* non-nil error, in every later state.
C24_EngineFailureInvalidates ==
    (itr.live /\ EngineFailed(itr)) =>
        /\ ~Valid(backend, itr).ret
        /\ Error(backend, itr) # NoErr

\* non-empty bounds with start == end or start > end
EmptyRange(start, end) ==
    /\ LenB(start) > 0 /\ LenB(end) > 0
    /\ BytesCompare(start, end) >= 0

\* C26: Iterator(start, end) and ReverseIterator(start, end) with non-empty
\* bounds, start == end or start > end, return an iterator whose first
\* Valid() is false, whatever the store holds.
C26_EmptyRangeYieldsNothing ==
    (ih.op = "open" /\ ~ih.failing /\ EmptyRange(ih.argStart, ih.argEnd)) =>
        /\ ih.err = NoErr
        /\ itr.live
        /\ ~Valid(backend, itr).ret

\* C27: SQLiteDB.Iterator and SQLiteDB.ReverseIterator return an iterator
\* and a nil error for each combination of nil and non-empty bounds, when
\* the engine does not fail; Iterator(nil, <<2>>) read to the end yields the
\* entries below <<2>> and nothing else.
C27_AllBoundCombinationsAccepted ==
    (backend \in {"sqlite", "sqliteV1", "sqliteV2"} /\ ih.op # "none"
        /\ ~BadBounds(ih.argStart, ih.argEnd) /\ ~ih.failing) =>
        /\ ih.err = NoErr
        /\ itr.live
        /\ (~ih.argRev /\ ih.argStart.isNil /\ ih.argEnd = B(<<2>>)
               /\ ih.done /\ ~ih.mutated) => ih.yielded = ih.expected

IsPrefix(s, t) == Len(s) <= Len(t) /\ \A i \in 1..Len(s) : s[i] = t[i]

\* C28: on Pebble, with no concurrent write, Iterator(start, end) yields the
\* stored entries with start <= key < end in ascending order and
\* ReverseIterator(start, end) the same entries in descending order: every
\* visit yields the next entry of that order, and the iterator becomes
\* invalid exactly after the last one.
C28_PebbleRangeCorrect ==
    (backend = "pebble" /\ GoodOpen(ih.argRev) /\ ~ih.mutated /\ ~ih.released) =>
        /\ ih.err = NoErr
        /\ IsPrefix(ih.yielded, ih.expected)
        /\ ih.done => ih.yielded = ih.expected
        /\ (itr.live /\ ~ih.done /\ Len(ih.yielded) < Len(ih.expected)) =>
               Valid(backend, itr).ret

\* a descending Pebble iterator with both bounds, read to the end over at
\* least two entries, with a stored key outside the range
C28_Witness ==
    /\ backend = "pebble" /\ GoodOpen(TRUE) /\ ~ih.mutated /\ ~ih.released
    /\ ~ih.argStart.isNil /\ ~ih.argEnd.isNil
    /\ ih.done /\ Len(ih.yielded) >= 2 /\ ih.yielded = ih.expected
    /\ Len(ih.expected) < Cardinality(DOMAIN kv)

(***************************************************************************)
(* Claims about released iterators and iteratorPool.                       *)
(***************************************************************************)
\* the iterator object behind handle h
HandleObj(h) == pool.objs[rh.hs[h]]

\* C21: on Pebble, once Close() has returned on a handle, Valid() on that
\* handle returns false and Key() and Value() on it panic, whatever
\* Iterator(), ReverseIterator() and Close() calls follow.
C21_ReleasedHandleStaysDead ==
    backend = "pebble" =>
        \A h \in rh.rel :
            /\ ~Valid(backend, HandleObj(h)).ret
            /\ Key(backend, HandleObj(h)).panic
            /\ Value(backend, HandleObj(h)).panic

\* C22: a Close() on a handle on which Close() has returned before returns
\* without a panic, with a nil error, and changes neither an iterator object
\* nor iteratorPool.
C22_CloseIsRepeatable ==
    (rh.op = "Close" /\ rh.again) =>
        /\ ~rh.panicked
        /\ rh.err = NoErr
        /\ rh.same

(***************************************************************************)
(* Claims about concurrent callers.                                        *)
(***************************************************************************)
\* C29: with several callers running Set and Get concurrently on keys of
\* their own, every Get that a caller runs after its Set(key, value)
\* returned yields value with a nil error, in every interleaving.
C29_ReadYourOwnWrite ==
    \A i \in Callers :
        cc[i].read => (cc[i].err = NoErr /\ cc[i].got = cc[i].value)

\* caller 1 has read the empty value of its second key back while caller 2
\* is between the Set and the Get of its second round
C29_Witness ==
    /\ cc[1].read /\ cc[1].j = 3 /\ cc[1].got = cc[1].value /\ cc[1].err = NoErr
    /\ cc[1].value = B(<<>>)
    /\ cc[2].pc = "get" /\ cc[2].j = 2 /\ cc[2].value = B(<<7>>)
    /\ Cardinality(DOMAIN kv) = 4

(***************************************************************************)
(* Claims about ForceSync.                                                 *)
(***************************************************************************)
\* C30: the engine write of PebbleDB.Set, PebbleDB.Delete and
\* pebbleDBBatch.Write carries the sync option when ForceSync was "1" at
\* start-up and the no-sync option otherwise; the engine write of SetSync,
\* DeleteSync and WriteSync carries the sync option in both cases.
C30_ForceSyncForcesSync ==
    sy.issued =>
        /\ sy.op \in {"Set", "Delete", "Write"} =>
               sy.wopts = (IF sy.ForceSync = "1" THEN "Sync" ELSE "NoSync")
        /\ sy.op \in {"SetSync", "DeleteSync", "WriteSync"} => sy.wopts = "Sync"

\* a batch Write with ForceSync = "1" that reached the engine with Sync
C30_Witness ==
    /\ sy.ForceSync = "1"
    /\ sy.op = "Write" /\ sy.issued /\ sy.wopts = "Sync"
    /\ kv # <<>>

(***************************************************************************)
(* Claims about the byte sequences an iterator returns.                    *)
(***************************************************************************)
\* C31: a byte sequence returned by Key() or Value() keeps its contents
\* through every later Next() and Close() of the iterator (until the caller
\* itself writes to it), and whatever the caller writes to a returned byte
\* sequence, Key() and Value() return the same bytes for as long as the
\* iterator stays on the same position.
C31_ResultsAreIndependentCopies ==
    /\ \A i \in DOMAIN al.got :
           ~al.got[i].mine => al.heap[al.got[i].addr] = al.got[i].bytes
    /\ \A i, j \in DOMAIN al.got :
           (al.got[i].kind = al.got[j].kind /\ al.got[i].n = al.got[j].n)
               => al.got[i].bytes = al.got[j].bytes

\* a key was returned and overwritten by the caller, the same position was
\* read again, the iterator moved on and was closed
C31_Witness ==
    /\ al.op = "close" /\ al.n >= 1
    /\ \E i, j \in DOMAIN al.got :
           /\ i < j
           /\ al.got[i].kind = "key" /\ al.got[j].kind = "key"
           /\ al.got[i].n = 0 /\ al.got[j].n = 0
           /\ al.got[i].mine /\ ~al.got[j].mine
           /\ al.heap[al.got[i].addr] # al.got[i].bytes

(***************************************************************************)
(* Claims about the consumption of a batch's buffer.                       *)
(***************************************************************************)
\* C32: a Write or WriteSync changes the store by nothing, or by exactly the
\* operations buffered since the last commit that was applied; it never
\* applies again what an earlier commit applied, whatever another caller
\* did to the store in between.  Set, Delete and Close leave the store.
C32_BufferConsumedOnce ==
    /\ (bh.op \in {"Write", "WriteSync"} /\ wr.pc = "idle") =>
           bh.post \in {bh.pre, ApplyOps(bh.pre, life.atCall)}
    /\ bh.op \in {"Set", "Delete", "Close"} => bh.post = bh.pre

\* a commit was applied, another caller undid its effect, and a later Write
\* with nothing newly buffered returned nil and left the store alone
C32_Witness ==
    /\ bh.op \in {"Write", "WriteSync"} /\ wr.pc = "idle" /\ bh.ret = NoErr
    /\ life.done # <<>> /\ life.atCall = <<>> /\ life.other
    /\ ApplyOps(bh.pre, life.done) # bh.pre
    /\ bh.post = bh.pre

(***************************************************************************)
(* Claims about the position of an iterator.                               *)
(***************************************************************************)
\* C33: right after ReverseIterator(start, end) returned an iterator, the
\* iterator is valid on the greatest stored key of [start, end) (of
\* [start, oo) when end is nil), and its Valid() is false when the store
\* holds no key of that range.
C33_DescendingStartsAtGreatest ==
    (GoodOpen(TRUE) /\ ih.op = "open" /\ ih.err = NoErr) =>
        IF ih.expected = <<>> THEN ~Valid(backend, itr).ret
        ELSE /\ Valid(backend, itr).ret
             /\ Key(backend, itr).ret.bytes = ih.expected[1][1]

\* the rows of cursor r at or after key, by their number
RowsAtOrAfter(r, key) ==
    {i \in 1..Len(r.data) : LexCompare(r.data[i].key, key.bytes) >= 0}

\* C34: right after the seeking constructor ran seek(start) on the ascending
\* cursor of Iterator(start, end), the iterator is on the first row of the
\* cursor whose key is at or after start, and it is invalid when the cursor
\* holds no such row.
C34_SeekPostcondition ==
    (backend = "sqliteV2" /\ GoodOpen(FALSE) /\ ih.op = "open" /\ ih.err = NoErr
        /\ ~ih.argStart.isNil) =>
        LET hit == RowsAtOrAfter(itr.rows, ih.argStart)
        IN  IF hit = {} THEN ~valid(itr) /\ ~Valid(backend, itr).ret
            ELSE /\ valid(itr)
                 /\ \A i \in hit : itr.rows.pos <= i
                 /\ itr.rows.pos \in hit
                 /\ itr.key.bytes = itr.rows.data[itr.rows.pos].key

\* C35: an SQLite iterator that has not scanned a row, because its query
\* returned none, is not valid, in either direction and with any bounds.
C35_NoRowsIsInvalid ==
    (backend # "pebble" /\ itr.live /\ ~ih.released /\ itr.rows.pos = 0) =>
        ~Valid(backend, itr).ret

(***************************************************************************)
(* Claims about Has.                                                       *)
(***************************************************************************)
\* C36: when Has(k) has returned for a non-empty key k, a Get(k) on the
\* store as Has left it returns a non-nil value exactly if Has returned true.
C36_HasAgreesWithGet ==
    (ph.op = "Has" /\ ph.ok /\ LenB(ph.key) > 0) =>
        LET g == DBGet(backend, ph.post, ph.key, TRUE)
        IN  /\ ph.err = NoErr /\ g.err = NoErr
            /\ ph.has = ~g.value.isNil

(***************************************************************************)
(* Claims about the iterator's accessors.                                  *)
(***************************************************************************)
\* C37: from the moment Iterator(start, end) or ReverseIterator(start, end)
\* has returned an iterator until its Close(), Domain() returns (start, end)
\* as the caller passed them.
C37_DomainIsCallersRange ==
    (itr.live /\ ~ih.released /\ ih.err = NoErr) =>
        Domain(backend, itr) = <<ih.argStart, ih.argEnd>>

\* C38: while no other caller writes, the loop  for ; itr.Valid(); itr.Next()
\* on a fresh iterator makes at most as many Next() calls as the store
\* holds keys in [start, end), in both directions.
C38_LoopBoundedByRange ==
    (ih.op # "none" /\ ih.err = NoErr /\ ~ih.mutated) =>
        Len(ih.yielded) <= Len(ih.expected)

\* C39: on a valid iterator, Valid(), Key(), Value(), Error() and Domain()
\* called one after the other, and then once more, return the same results
\* both times and leave the iterator (its current entry and the position of
\* its cursor) exactly as it was.
C39_OnlyNextMoves ==
    (itr.live /\ ~ih.released /\ Valid(backend, itr).ret) =>
        LET v1 == Valid(backend, itr)
            k1 == Key(backend, v1.it)
            w1 == Value(backend, k1.it)
            v2 == Valid(backend, w1.it)
            k2 == Key(backend, v2.it)
            w2 == Value(backend, k2.it)
        IN  /\ ~k1.panic /\ ~w1.panic /\ ~k2.panic /\ ~w2.panic
            /\ v2.ret = v1.ret /\ k2.ret = k1.ret /\ w2.ret = w1.ret
            /\ Error(backend, w2.it) = Error(backend, itr)
            /\ Domain(backend, w2.it) = Domain(backend, itr)
            /\ w2.it = itr

\* an SQLite iterator that has been advanced once and is valid on the second
\* of the entries of its range, with a third still to come
C39_Witness ==
    /\ backend = "sqlite" /\ itr.live /\ ~ih.released /\ ~ih.mutated
    /\ Len(ih.yielded) = 1 /\ Len(ih.expected) = 3 /\ ih.op = "visit"
    /\ Valid(backend, itr).ret
    /\ Key(backend, itr).ret.bytes = ih.expected[2][1]
    /\ Value(backend, itr).ret.bytes = ih.expected[2][2]

====
